---------------------------- MODULE Spec2Model ----------------------------
(***************************************************************************)
(* Project-context and artifact-handoff pipeline of mfelkey/ds-team.       *)
(*                                                                         *)
(* Text is modelled as a sequence of characters (one-character strings),   *)
(* so that slicing, stripping, case conversion and concatenation are       *)
(* computed the way the Python code computes them.                         *)
(***************************************************************************)
EXTENDS Integers, Sequences, FiniteSets, TLC

(***************************************************************************)
(* Text primitives (Python str operations used by the code)                *)
(***************************************************************************)
NL == "\n"

EmDash == "mdash"   \* the single character U+2014

WS == {" ", "\t", "\n", "\r"}

DIGITS == {"0", "1", "2", "3", "4", "5", "6", "7", "8", "9"}

LOWER == <<"a", "b", "c", "d", "e", "f", "g", "h", "i", "j", "k", "l", "m",
           "n", "o", "p", "q", "r", "s", "t", "u", "v", "w", "x", "y", "z">>

UPPER == <<"A", "B", "C", "D", "E", "F", "G", "H", "I", "J", "K", "L", "M",
           "N", "O", "P", "Q", "R", "S", "T", "U", "V", "W", "X", "Y", "Z">>

SetMin(S) == CHOOSE m \in S : \A n \in S : m <= n

SetMax(S) == CHOOSE m \in S : \A n \in S : m >= n

Max2(a, b) == IF a >= b THEN a ELSE b

Min2(a, b) == IF a <= b THEN a ELSE b

\* "c" * n
Fill(c, n) == [i \in 1..n |-> c]

\* t[:n]
Take(t, n) ==
    IF n >= 0 THEN SubSeq(t, 1, Min2(n, Len(t)))
              ELSE SubSeq(t, 1, Max2(Len(t) + n, 0))

LowerChar(c) ==
    IF \E i \in 1..Len(UPPER) : UPPER[i] = c
    THEN LOWER[CHOOSE i \in 1..Len(UPPER) : UPPER[i] = c]
    ELSE c

UpperChar(c) ==
    IF \E i \in 1..Len(LOWER) : LOWER[i] = c
    THEN UPPER[CHOOSE i \in 1..Len(LOWER) : LOWER[i] = c]
    ELSE c

\* t.lower()
Lower(t) == [i \in 1..Len(t) |-> LowerChar(t[i])]

\* t.upper()
Upper(t) == [i \in 1..Len(t) |-> UpperChar(t[i])]

\* the first position from i on that holds no character of set, or Len(t) + 1
RECURSIVE SkipForward(_, _, _)
SkipForward(t, set, i) ==
    IF i <= Len(t) /\ t[i] \in set THEN SkipForward(t, set, i + 1) ELSE i

\* the last position up to i that holds no character of set, or 0
RECURSIVE SkipBackward(_, _, _)
SkipBackward(t, set, i) ==
    IF i >= 1 /\ t[i] \in set THEN SkipBackward(t, set, i - 1) ELSE i

\* t.strip()
Strip(t) == SubSeq(t, SkipForward(t, WS, 1), SkipBackward(t, WS, Len(t)))

\* the k-th smallest element of a set of integers
Nth(S, k) == CHOOSE m \in S : Cardinality({n \in S : n < m}) = k - 1

\* t.split("\n")
SplitLines(t) ==
    LET nls == {i \in 1..Len(t) : t[i] = NL}
        k   == Cardinality(nls)
        from(j) == IF j = 1 THEN 1 ELSE Nth(nls, j - 1) + 1
        to(j)   == IF j = k + 1 THEN Len(t) ELSE Nth(nls, j) - 1
    IN  [j \in 1..(k + 1) |-> SubSeq(t, from(j), to(j))]

RECURSIVE JoinFrom(_, _, _)
JoinFrom(parts, sep, i) ==
    IF i > Len(parts) THEN <<>>
    ELSE IF i = Len(parts) THEN parts[i]
    ELSE parts[i] \o sep \o JoinFrom(parts, sep, i + 1)

\* sep.join(parts)
Join(parts, sep) == JoinFrom(parts, sep, 1)

\* needle in hay   (Python substring test)
Contains(hay, needle) ==
    \/ needle = <<>>
    \/ \E i \in 0..(Len(hay) - Len(needle)) :
           /\ hay[i + 1] = needle[1]
           /\ hay[i + Len(needle)] = needle[Len(needle)]
           /\ SubSeq(hay, i + 1, i + Len(needle)) = needle

\* hay.startswith(p)
StartsWith(hay, p) == Len(p) <= Len(hay) /\ SubSeq(hay, 1, Len(p)) = p

\* set(t.split())
Words(t) ==
    {SubSeq(t, i, j) : <<i, j>> \in
        {p \in (1..Len(t)) \X (1..Len(t)) :
            /\ p[1] <= p[2]
            /\ \A m \in p[1]..p[2] : t[m] \notin WS
            /\ (p[1] = 1 \/ t[p[1] - 1] \in WS)
            /\ (p[2] = Len(t) \/ t[p[2] + 1] \in WS)}}

(***************************************************************************)
(* Tier 1: section extraction  (agents/utils/smart_extract.py)             *)
(***************************************************************************)
\* number of leading "#" of a stripped line
HashRun(s) == SkipForward(s, {"#"}, 1) - 1

\* heading_re.match(line.strip()) for  ^(#{1,6})\s+(.+)$
IsHeading(line) ==
    LET s == Strip(line)
        h == HashRun(s)
    IN  h >= 1 /\ h <= 6 /\ h < Len(s) /\ s[h + 1] \in WS

HeadingLevel(line) == HashRun(Strip(line))

\* m.group(2).strip()
HeadingText(line) ==
    LET s == Strip(line) IN Strip(SubSeq(s, HashRun(s) + 1, Len(s)))

\* re.sub(r"^[\d\.\-\)\s]+", "", normalized).strip()
CleanHeading(normalized) ==
    Strip(SubSeq(normalized,
                 SkipForward(normalized, DIGITS \cup {".", "-", ")"} \cup WS, 1),
                 Len(normalized)))

\* d.setdefault(key, val): an entry already there is kept
DictSetDefault(d, key, val) ==
    IF \E i \in 1..Len(d) : d[i].key = key
    THEN d
    ELSE Append(d, [key |-> key, val |-> val])

\* d[key] = val on an insertion-ordered dict held as a sequence of pairs
DictPut(d, key, val) ==
    IF \E i \in 1..Len(d) : d[i].key = key
    THEN [i \in 1..Len(d) |-> IF d[i].key = key
                              THEN [key |-> key, val |-> val] ELSE d[i]]
    ELSE Append(d, [key |-> key, val |-> val])

DictHas(d, key) == \E i \in 1..Len(d) : d[i].key = key

DictGet(d, key) == d[CHOOSE i \in 1..Len(d) : d[i].key = key].val

\* the headings list of parse_sections: (line number, level, raw heading)
headings(lines) ==
    LET hl == {i \in 1..Len(lines) : IsHeading(lines[i])}
    IN  [k \in 1..Cardinality(hl) |->
            [line  |-> Nth(hl, k),
             level |-> HeadingLevel(lines[Nth(hl, k)]),
             text  |-> HeadingText(lines[Nth(hl, k)])]]

\* end_line that only a heading of a strictly higher level closes
end_line_strictly_higher(lines, hs, idx) ==
    LET closing == {n \in (idx + 1)..Len(hs) : hs[n].level < hs[idx].level}
    IN  IF closing = {} THEN Len(lines) + 1 ELSE hs[SetMin(closing)].line

\* end_line: the next heading of the same or a higher level, else the end
end_line(lines, hs, idx) ==
    LET closing == {n \in (idx + 1)..Len(hs) : hs[n].level <= hs[idx].level}
    IN  IF closing = {} THEN Len(lines) + 1 ELSE hs[SetMin(closing)].line

\* "\n".join(lines[line_num + 1:end_line]).strip()
section_content(lines, hs, idx) ==
    Strip(Join(SubSeq(lines, hs[idx].line + 1, end_line(lines, hs, idx) - 1),
               <<NL>>))

\* one pass of the loop that fills the sections dict
add_section(sections, heading, content) ==
    IF content = <<>> THEN sections
    ELSE IF CleanHeading(Lower(heading)) # <<>>
            /\ CleanHeading(Lower(heading)) # Lower(heading)
    THEN DictPut(DictPut(sections, Lower(heading), content),
                 CleanHeading(Lower(heading)), content)
    ELSE DictPut(sections, Lower(heading), content)

RECURSIVE build_sections(_, _, _, _)
build_sections(sections, lines, hs, idx) ==
    IF idx > Len(hs) THEN sections
    ELSE build_sections(
             add_section(sections, hs[idx].text, section_content(lines, hs, idx)),
             lines, hs, idx + 1)

\* parse_sections(text): insertion-ordered {heading: content}
parse_sections(text) ==
    build_sections(<<>>, SplitLines(text), headings(SplitLines(text)), 1)

NoSection == [found |-> FALSE, val |-> <<>>]

\* find_section(sections, wanted): None is NoSection
find_section(sections, wanted) ==
    LET wanted_lower == Strip(Lower(wanted))
        wanted_words == Words(wanted_lower)
        idxs == 1..Len(sections)
        sub1 == {i \in idxs : Contains(sections[i].key, wanted_lower)}
        sub2 == {i \in idxs : Contains(wanted_lower, sections[i].key)}
        overlap(i) == Cardinality(wanted_words \cap Words(sections[i].key))
        denom(i) ==
            Max2(Cardinality(wanted_words), Cardinality(Words(sections[i].key)))
        scored == {i \in idxs : /\ Words(sections[i].key) # {}
                                /\ wanted_words # {}
                                /\ 2 * overlap(i) > denom(i)}
        \* strict ">" keeps the first key among those with the best score
        best == {i \in scored :
                    /\ \A j \in scored :
                         overlap(i) * denom(j) >= overlap(j) * denom(i)
                    /\ \A j \in scored :
                         j < i => overlap(i) * denom(j) > overlap(j) * denom(i)}
    IN  IF DictHas(sections, wanted_lower)
        THEN [found |-> TRUE, val |-> DictGet(sections, wanted_lower)]
        ELSE IF sub1 # {}
        THEN [found |-> TRUE, val |-> sections[SetMin(sub1)].val]
        ELSE IF sub2 # {}
        THEN [found |-> TRUE, val |-> sections[SetMin(sub2)].val]
        ELSE IF best # {}
        THEN [found |-> TRUE, val |-> sections[SetMin(best)].val]
        ELSE NoSection

\* f"\n--- {wanted.upper()} ---\n"
SectionHeader(wanted) ==
    <<NL, "-", "-", "-", " ">> \o Upper(wanted) \o <<" ", "-", "-", "-", NL>>

TruncatedNotice ==
    <<NL, "[", ".", ".", ".", "t", "r", "u", "n", "c", "a", "t", "e", "d", "]">>

MinTruncatedSection == 200

\* the loop of extract_sections from wanted_sections[i] on
RECURSIVE extract_loop(_, _, _, _, _, _)
extract_loop(sections, wanted_sections, max_chars, i, parts, total) ==
    IF i > Len(wanted_sections) THEN parts
    ELSE LET r     == find_section(sections, wanted_sections[i])
             chunk == SectionHeader(wanted_sections[i]) \o r.val
         IN  IF ~r.found \/ r.val = <<>>
             THEN extract_loop(sections, wanted_sections, max_chars,
                               i + 1, parts, total)
             ELSE IF max_chars # 0 /\ total + Len(chunk) > max_chars
             THEN IF max_chars - total > MinTruncatedSection
                  THEN Append(parts,
                         Take(chunk, max_chars - total) \o TruncatedNotice)
                  ELSE parts
             ELSE extract_loop(sections, wanted_sections, max_chars,
                               i + 1, Append(parts, chunk), total + Len(chunk))

\* the parts list built by extract_sections
extract_parts(text, wanted_sections, max_chars) ==
    extract_loop(parse_sections(text), wanted_sections, max_chars, 1, <<>>, 0)

\* extract_sections(text, wanted_sections, max_chars)
extract_sections(text, wanted_sections, max_chars) ==
    Join(extract_parts(text, wanted_sections, max_chars), <<NL>>)

(***************************************************************************)
(* CONTEXT_MAP  (agents/utils/smart_extract.py), the entries of the        *)
(* consumers and artifact types used in this model                         *)
(***************************************************************************)
T_BIR == <<"B", "I", "R">>

T_BIR_R == <<"B", "I", "R", "_", "R">>

T_TAD == <<"T", "A", "D">>

T_PRD == <<"P", "R", "D">>

DBA_BIR ==
    <<<<"d", "a", "t", "a", "b", "a", "s", "e", " ", "s", "c", "h", "e", "m", "a">>,
      <<"s", "q", "l">>,
      <<"m", "i", "g", "r", "a", "t", "i", "o", "n", "s">>,
      <<"i", "n", "d", "e", "x", "e", "s">>,
      <<"q", "u", "e", "r", "i", "e", "s">>,
      <<"d", "a", "t", "a", " ", "a", "c", "c", "e", "s", "s">>>>

DBA_TAD ==
    <<<<"d", "a", "t", "a", " ", "a", "r", "c", "h", "i", "t", "e", "c", "t", "u", "r", "e">>,
      <<"d", "a", "t", "a", "b", "a", "s", "e">>,
      <<"s", "c", "a", "l", "a", "b", "i", "l", "i", "t", "y">>>>

VERIFY_BIR ==
    <<<<"a", "p", "i", " ", "e", "n", "d", "p", "o", "i", "n", "t", "s">>,
      <<"d", "a", "t", "a", "b", "a", "s", "e", " ", "s", "c", "h", "e", "m", "a">>,
      <<"a", "u", "t", "h", "e", "n", "t", "i", "c", "a", "t", "i", "o", "n">>,
      <<"i", "m", "p", "l", "e", "m", "e", "n", "t", "a", "t", "i", "o", "n">>>>

QA_LEAD_TAD ==
    <<<<"c", "o", "m", "p", "o", "n", "e", "n", "t">>,
      <<"a", "p", "i", " ", "s", "p", "e", "c", "i", "f", "i", "c", "a", "t", "i", "o", "n", "s">>,
      <<"s", "e", "c", "u", "r", "i", "t", "y">>>>

\* CONTEXT_MAP.get(consumer, {}).get(artifact_type, [])
CONTEXT_MAP(consumer, artifact_type) ==
    CASE consumer = "dba"     /\ artifact_type = T_BIR -> DBA_BIR
      [] consumer = "dba"     /\ artifact_type = T_TAD -> DBA_TAD
      [] consumer = "verify"  /\ artifact_type = T_BIR -> VERIFY_BIR
      [] consumer = "qa_lead" /\ artifact_type = T_TAD -> QA_LEAD_TAD
      [] OTHER -> <<>>

(***************************************************************************)
(* State                                                                   *)
(***************************************************************************)
VARIABLES
    context,            \* the in-memory project context dict
    saved,              \* logs/<project_id>.json as last written
    fs,                 \* artifact files on disk: path -> text
    chroma_available,   \* smart_extract.CHROMA_AVAILABLE
    pc,                 \* position of the running operation
    lac,                \* frame of load_agent_context / get_context
    loaded,             \* what the last load_agent_context call returned
    approval,           \* frame of the call that waits for the human
    outcome,            \* what the last gate, handoff or stage call returned
    run                 \* frame of the stage process that is running

vars == <<context, saved, fs, chroma_available, pc, lac, loaded,
          approval, outcome, run>>

ProjectId == "PROJ-0A1B2C3D"

NoFrame == [op |-> "none"]

(***************************************************************************)
(* Project context  (agents/orchestrator/orchestrator.py)                  *)
(***************************************************************************)
\* create_project_context(request, classification)
create_project_context(classification) ==
    [project_id     |-> ProjectId,
     status         |-> "INITIATED",
     classification |-> classification,
     assigned_crew  |-> "None",
     next_action    |-> "None",
     checkpoints    |-> <<>>,
     handoffs       |-> <<>>,
     artifacts      |-> <<>>,
     audit_log      |-> <<>>]

\* a log that keeps the newest event first
log_event_newest_first(ctx, event, detail) ==
    [ctx EXCEPT !.audit_log = <<[event |-> event, detail |-> detail]>> \o @]

\* log_event(context, event, detail)
log_event(ctx, event, detail) ==
    [ctx EXCEPT !.audit_log = Append(@, [event |-> event, detail |-> detail])]

\* save_context(context): the file now holds the whole context
save_context(ctx) == [exists |-> TRUE, data |-> ctx]

\* classify_project: the context as created, classified and saved
classify_project(classification) ==
    log_event([create_project_context(classification)
                   EXCEPT !.status = "CLASSIFIED"],
              "PROJECT_CLASSIFIED", "Type: " \o classification)

(***************************************************************************)
(* The context file: json.dump(context, f, indent=2) and json.load(f)      *)
(* A Python value is a tree: a str (an atom of the model, or a text of     *)
(* characters), None, a list, or a dict whose members keep their order.    *)
(* The file is the sequence of JSON tokens; white space is left out.       *)
(***************************************************************************)
JStr(s) == [k |-> "str", v |-> s]

JText(chars) == [k |-> "text", chars |-> chars]

JNull == [k |-> "null"]

JList(items) == [k |-> "list", items |-> items]

JDict(members) == [k |-> "dict", members |-> members]

\* the tokens: punctuation and null, string literals
Punct(c) == [t |-> "p", v |-> c]

StrToken(s) == [t |-> "s", v |-> s]

TextToken(escaped) == [t |-> "x", chars |-> escaped]

Quote == "\""

Backslash == "\\"

\* the encoder's escapes (ensure_ascii): quote, backslash, newline, and a
\* non-ASCII character as \uXXXX
EscapeChar(c) ==
    IF c = Quote THEN <<Backslash, Quote>>
    ELSE IF c = Backslash THEN <<Backslash, Backslash>>
    ELSE IF c = NL THEN <<Backslash, "n">>
    ELSE IF c = EmDash THEN <<Backslash, "u", "2", "0", "1", "4">>
    ELSE <<c>>

RECURSIVE Escape(_, _)
Escape(chars, i) ==
    IF i > Len(chars) THEN <<>>
    ELSE EscapeChar(chars[i]) \o Escape(chars, i + 1)

\* the decoder's scan of a string literal from position i on
RECURSIVE Unescape(_, _)
Unescape(s, i) ==
    IF i > Len(s) THEN <<>>
    ELSE IF s[i] # Backslash THEN <<s[i]>> \o Unescape(s, i + 1)
    ELSE IF i + 1 > Len(s) THEN <<>>
    ELSE IF s[i + 1] = "n" THEN <<NL>> \o Unescape(s, i + 2)
    ELSE IF s[i + 1] = "u" THEN <<EmDash>> \o Unescape(s, i + 6)
    ELSE <<s[i + 1]>> \o Unescape(s, i + 2)

\* a list encoder that writes the newest item first
RECURSIVE json_dump(_)
RECURSIVE dump_items_newest_first(_, _)
dump_items_newest_first(items, i) ==
    IF i > Len(items) THEN <<>>
    ELSE dump_items_newest_first(items, i + 1)
         \o (IF i < Len(items) THEN <<Punct(",")>> ELSE <<>>)
         \o json_dump(items[i])

\* the items of a list, from the i-th on, separated by commas
RECURSIVE dump_items(_, _)
dump_items(items, i) ==
    IF i > Len(items) THEN <<>>
    ELSE json_dump(items[i])
         \o (IF i < Len(items) THEN <<Punct(",")>> ELSE <<>>)
         \o dump_items(items, i + 1)

\* the members of a dict, in insertion order
RECURSIVE dump_members(_, _)
dump_members(members, i) ==
    IF i > Len(members) THEN <<>>
    ELSE <<StrToken(members[i].key), Punct(":")>>
         \o json_dump(members[i].val)
         \o (IF i < Len(members) THEN <<Punct(",")>> ELSE <<>>)
         \o dump_members(members, i + 1)

\* json.dump of one value
json_dump(value) ==
    IF value.k = "str" THEN <<StrToken(value.v)>>
    ELSE IF value.k = "text" THEN <<TextToken(Escape(value.chars, 1))>>
    ELSE IF value.k = "null" THEN <<Punct("null")>>
    ELSE IF value.k = "list"
    THEN <<Punct("[")>> \o dump_items(value.items, 1) \o <<Punct("]")>>
    ELSE <<Punct("{")>> \o dump_members(value.members, 1) \o <<Punct("}")>>

\* what the decoder raises on a text that is no JSON document
JSONDecodeError == [k |-> "JSONDecodeError"]

ParseFailed == [ok |-> FALSE]

Parsed(value, next) == [ok |-> TRUE, val |-> value, next |-> next]

RECURSIVE parse_value(_, _)
\* the items of a list after "[" or ","; acc holds those already read
RECURSIVE parse_items(_, _, _)
parse_items(toks, i, acc) ==
    IF i > Len(toks) THEN ParseFailed
    ELSE IF toks[i] = Punct("]") /\ acc = <<>> THEN Parsed(JList(acc), i + 1)
    ELSE LET r == parse_value(toks, i)
         IN  IF ~r.ok \/ r.next > Len(toks) THEN ParseFailed
             ELSE IF toks[r.next] = Punct(",")
             THEN parse_items(toks, r.next + 1, Append(acc, r.val))
             ELSE IF toks[r.next] = Punct("]")
             THEN Parsed(JList(Append(acc, r.val)), r.next + 1)
             ELSE ParseFailed

\* the members of a dict after "{" or ","
RECURSIVE parse_members(_, _, _)
parse_members(toks, i, acc) ==
    IF i > Len(toks) THEN ParseFailed
    ELSE IF toks[i] = Punct("}") /\ acc = <<>> THEN Parsed(JDict(acc), i + 1)
    ELSE IF toks[i].t # "s" \/ i + 1 > Len(toks) THEN ParseFailed
    ELSE IF toks[i + 1] # Punct(":") THEN ParseFailed
    ELSE LET r == parse_value(toks, i + 2)
             m == [key |-> toks[i].v, val |-> r.val]
         IN  IF ~r.ok \/ r.next > Len(toks) THEN ParseFailed
             ELSE IF toks[r.next] = Punct(",")
             THEN parse_members(toks, r.next + 1, Append(acc, m))
             ELSE IF toks[r.next] = Punct("}")
             THEN Parsed(JDict(Append(acc, m)), r.next + 1)
             ELSE ParseFailed

parse_value(toks, i) ==
    IF i > Len(toks) THEN ParseFailed
    ELSE IF toks[i].t = "s" THEN Parsed(JStr(toks[i].v), i + 1)
    ELSE IF toks[i].t = "x"
    THEN Parsed(JText(Unescape(toks[i].chars, 1)), i + 1)
    ELSE IF toks[i].v = "null" THEN Parsed(JNull, i + 1)
    ELSE IF toks[i].v = "[" THEN parse_items(toks, i + 1, <<>>)
    ELSE IF toks[i].v = "{" THEN parse_members(toks, i + 1, <<>>)
    ELSE ParseFailed

\* json.load of a whole file
json_load(toks) ==
    LET r == parse_value(toks, 1)
    IN  IF r.ok /\ r.next = Len(toks) + 1 THEN r.val ELSE JSONDecodeError

\* the event whose detail is the reason the human typed
HandoffIds ==
    {"HO-" \o ProjectId \o "-" \o d \o "2" \o r : d, r \in {"DS", "DEV"}}

IsRejectionEvent(event) ==
    \E id \in HandoffIds : event = "HANDOFF REJECTED: " \o id

\* None, or a str
OptionalStr(s) == IF s = "None" THEN JNull ELSE JStr(s)

Member(key, value) == [key |-> key, val |-> value]

ArtifactTree(a) ==
    JDict(<<Member("type", JText(a.type)), Member("path", JStr(a.path)),
            Member("created_by", JStr(a.created_by))>>)

EventTree(e) ==
    JDict(<<Member("event", JStr(e.event)),
            Member("detail", IF IsRejectionEvent(e.event)
                             THEN JText(e.detail) ELSE JStr(e.detail))>>)

HandoffTree(h) ==
    JDict(<<Member("handoff_id", JStr(h.handoff_id)),
            Member("status", JStr(h.status)),
            IF "reason" \in DOMAIN h
            THEN Member("reason", JText(h.reason))
            ELSE Member("path", JStr(h.path))>>)

\* the project context dict as Python holds it, keys in insertion order
\* (next_action is a key only once an operation has set it)
ContextTree(ctx) ==
    JDict(<<Member("project_id", JStr(ctx.project_id)),
            Member("status", JStr(ctx.status)),
            Member("classification", JStr(ctx.classification)),
            Member("assigned_crew", OptionalStr(ctx.assigned_crew)),
            Member("checkpoints", JList(<<>>)),
            Member("handoffs",
                   JList([i \in 1..Len(ctx.handoffs) |-> HandoffTree(ctx.handoffs[i])])),
            Member("artifacts",
                   JList([i \in 1..Len(ctx.artifacts) |-> ArtifactTree(ctx.artifacts[i])])),
            Member("audit_log",
                   JList([i \in 1..Len(ctx.audit_log) |-> EventTree(ctx.audit_log[i])]))>>
          \o (IF ctx.next_action = "None" THEN <<>>
              ELSE <<Member("next_action", JStr(ctx.next_action))>>))

\* dict[key], and dict.get(key, default)
TreeHas(tree, key) ==
    \E i \in 1..Len(tree.members) : tree.members[i].key = key

TreeGet(tree, key) ==
    tree.members[CHOOSE i \in 1..Len(tree.members) : tree.members[i].key = key].val

\* the model's value for a str, a text or None
ValueOf(node) ==
    IF node.k = "text" THEN node.chars
    ELSE IF node.k = "null" THEN "None"
    ELSE node.v

\* a flat dict as a record
RecordOf(tree) ==
    [name \in {tree.members[i].key : i \in 1..Len(tree.members)} |->
        ValueOf(TreeGet(tree, name))]

RecordsOf(list) == [i \in 1..Len(list.items) |-> RecordOf(list.items[i])]

\* the project context a process holds after json.load
ContextOf(tree) ==
    [project_id     |-> ValueOf(TreeGet(tree, "project_id")),
     status         |-> ValueOf(TreeGet(tree, "status")),
     classification |-> ValueOf(TreeGet(tree, "classification")),
     assigned_crew  |-> ValueOf(TreeGet(tree, "assigned_crew")),
     next_action    |-> IF TreeHas(tree, "next_action")
                        THEN ValueOf(TreeGet(tree, "next_action")) ELSE "None",
     checkpoints    |-> <<>>,
     handoffs       |-> RecordsOf(TreeGet(tree, "handoffs")),
     artifacts      |-> RecordsOf(TreeGet(tree, "artifacts")),
     audit_log      |-> RecordsOf(TreeGet(tree, "audit_log"))]

(***************************************************************************)
(* Stages: each writes its document, appends the artifact record, sets     *)
(* status, logs its completion event and saves the context                 *)
(***************************************************************************)
PrdPath == "dev/requirements/PROJ-0A1B2C3D_PRD.md"

TadPath == "dev/architecture/PROJ-0A1B2C3D_TAD.md"

BirPath == "dev/build/PROJ-0A1B2C3D_BIR.md"

BirRevisedPath == "dev/build/PROJ-0A1B2C3D_BIR_R.md"

MaxArtifacts == 2

WriteFile(files, path, text) == (path :> text) @@ files

FinishStage(atype, path, creator, label, text) ==
    /\ pc = "idle"
    /\ Len(context.artifacts) < MaxArtifacts
    /\ fs' = WriteFile(fs, path, text)
    /\ context' = log_event(
           [context EXCEPT
               !.artifacts = Append(@, [type |-> atype, path |-> path,
                                        created_by |-> creator]),
               !.status = label],
           label, path)
    /\ saved' = save_context(context')
    /\ loaded' = NoFrame   \* a stage is a new process: no earlier result
    /\ outcome' = NoFrame
    /\ UNCHANGED <<chroma_available, run, pc, lac, approval>>

\* run_requirements_phase, from the write of the PRD on
run_requirements_phase(text) ==
    FinishStage(T_PRD, PrdPath, "Product Manager", "PRD_COMPLETE", text)

\* run_architecture_design, from the write of the TAD on
run_architecture_design(text) ==
    FinishStage(T_TAD, TadPath, "Technical Architect",
                   "ARCHITECTURE_COMPLETE", text)

\* run_backend_implementation, from the write of the BIR on
run_backend_implementation(text) ==
    FinishStage(T_BIR, BirPath, "Backend Developer", "BACKEND_COMPLETE", text)

\* the BIR the retrofit's entry point picks: the last record of type "BIR"
RetrofitSource(artifacts) ==
    LET hits == {i \in 1..Len(artifacts) : artifacts[i].type = T_BIR}
    IN  IF hits = {} THEN "" ELSE artifacts[SetMax(hits)].path

\* bir_path.replace("_BIR.md", "_BIR_R.md")
RevisedPath(path) == IF path = BirPath THEN BirRevisedPath ELSE path

\* run_bir_retrofit on the BIR found in the context, which it reads first
run_bir_retrofit(text) ==
    /\ RetrofitSource(context.artifacts) # ""
    /\ RetrofitSource(context.artifacts) \in DOMAIN fs
    /\ FinishStage(T_BIR_R, RevisedPath(RetrofitSource(context.artifacts)),
                   "Backend Developer (retrofit)", "BIR_RETROFIT_COMPLETE", text)

\* an artifact file is not (or no longer) where its record says:
\* os.path.exists(path) is then False
FileGone(path) ==
    /\ pc = "idle"
    /\ path \in DOMAIN fs
    /\ fs' = [p \in DOMAIN fs \ {path} |-> fs[p]]
    /\ UNCHANGED <<context, saved, chroma_available, run, pc, lac, loaded,
                   approval, outcome>>

(***************************************************************************)
(* Context loader  (agents/orchestrator/context_manager.py)                *)
(***************************************************************************)
\* the loop that fills artifact_paths, from the i-th record on
\* (src is the position in artifacts of the record an entry came from)
RECURSIVE collect_paths(_, _, _)
collect_paths(d, artifacts, i) ==
    IF i > Len(artifacts) THEN d
    ELSE IF artifacts[i].type # <<>> /\ artifacts[i].path # ""
    THEN collect_paths(DictPut(d, artifacts[i].type,
                               [path |-> artifacts[i].path, src |-> i]),
                       artifacts, i + 1)
    ELSE collect_paths(d, artifacts, i + 1)

\* the artifact_paths dict of load_agent_context
artifact_paths(artifacts) == collect_paths(<<>>, artifacts, 1)

\* a lookup that raises KeyError for a type without an entry
PathSubscript(paths, atype) ==
    IF DictHas(paths, atype)
    THEN [raised |-> FALSE] @@ DictGet(paths, atype)
    ELSE [raised |-> TRUE, path |-> "", src |-> 0]

\* artifact_paths.get(atype, "")
PathLookup(paths, atype) ==
    IF DictHas(paths, atype)
    THEN [raised |-> FALSE] @@ DictGet(paths, atype)
    ELSE [raised |-> FALSE, path |-> "", src |-> 0]

\* the loop that fills requested, from the i-th requested type on
RECURSIVE filter_requested(_, _, _, _, _)
filter_requested(d, paths, artifact_types, files, i) ==
    IF i > Len(artifact_types) THEN [raised |-> FALSE, dict |-> d]
    ELSE IF PathLookup(paths, artifact_types[i]).raised
    THEN [raised |-> TRUE, dict |-> d]
    ELSE IF PathLookup(paths, artifact_types[i]).path # ""
            /\ PathLookup(paths, artifact_types[i]).path \in DOMAIN files
    THEN filter_requested(
             DictPut(d, artifact_types[i],
                     [path |-> PathLookup(paths, artifact_types[i]).path,
                      src  |-> PathLookup(paths, artifact_types[i]).src]),
             paths, artifact_types, files, i + 1)
    ELSE filter_requested(d, paths, artifact_types, files, i + 1)

\* the requested dict: the requested types that resolve to an existing file
requested_paths(paths, artifact_types, files) ==
    filter_requested(<<>>, paths, artifact_types, files, 1)

MIN_USEFUL == 500

DefaultMaxChars == 6000

\* a threshold that the boundary length itself meets
at_least_threshold(text) == Len(text) >= MIN_USEFUL

\* "meaningful content (>500 chars)"
meaningful(text) == Len(text) > MIN_USEFUL

\* a result cut at the threshold instead of the budget
cut_at_threshold(text, max_chars) == Take(text, MIN_USEFUL)

\* extracted[:max_chars], semantic_result[:max_chars]
accepted(text, max_chars) == Take(text, max_chars)

TruncationWarning ==
    <<NL, NL, "[", ".", ".", ".", "t", "r", "u", "n", "c", "a", "t", "e", "d",
      " ", EmDash, " ", "s", "e", "c", "t", "i", "o", "n", " ",
      "e", "x", "t", "r", "a", "c", "t", "i", "o", "n", " ",
      "f", "o", "u", "n", "d", " ", "n", "o", " ",
      "m", "a", "t", "c", "h", "i", "n", "g", " ",
      "h", "e", "a", "d", "i", "n", "g", "s", "]">>

\* get_context entered for the i-th entry of requested: the file is read
EnterGetContext(frame, i) ==
    [frame EXCEPT !.i = i,
                  !.full_text = fs[frame.requested[i].val.path],
                  !.wanted = CONTEXT_MAP(frame.consumer, frame.requested[i].key),
                  !.extracted = <<>>,
                  !.invoked = <<>>]

\* get_context returns ret: get_multi_context stores it and goes on to the
\* next entry, or load_agent_context returns the result dict
LeaveGetContext(frame, tier, ret) ==
    LET call == [atype |-> frame.requested[frame.i].key,
                 path |-> frame.requested[frame.i].val.path,
                 full_text |-> frame.full_text,
                 wanted |-> frame.wanted,
                 extracted |-> frame.extracted,
                 invoked |-> frame.invoked,
                 tier |-> tier,
                 ret |-> ret]
        done == [frame EXCEPT !.result = DictPut(@, call.atype, ret),
                              !.calls = Append(@, call)]
    IN  IF frame.i < Len(frame.requested)
        THEN /\ lac' = EnterGetContext(done, frame.i + 1)
             /\ pc' = "tier1"
             /\ UNCHANGED loaded
        ELSE /\ lac' = NoFrame
             /\ pc' = "idle"
             /\ loaded' = [done EXCEPT !.op = "returned"]

\* load_agent_context(context, consumer, artifact_types, max_chars), up to
\* the first get_context call
load_agent_context(consumer, artifact_types, max_chars) ==
    /\ pc = "idle"
    /\ LET req == requested_paths(artifact_paths(context.artifacts),
                                  artifact_types, fs)
           frame == [op |-> "load_agent_context",
                     consumer |-> consumer,
                     artifact_types |-> artifact_types,
                     max_chars |-> max_chars,
                     artifacts |-> context.artifacts,
                     files |-> DOMAIN fs,
                     requested |-> req.dict,
                     raised |-> req.raised,
                     i |-> 0,
                     full_text |-> <<>>,
                     wanted |-> <<>>,
                     extracted |-> <<>>,
                     invoked |-> <<>>,
                     result |-> <<>>,
                     calls |-> <<>>]
       IN  IF req.raised \/ req.dict = <<>>
           THEN /\ loaded' = [frame EXCEPT !.op = "returned"]
                /\ UNCHANGED <<pc, lac>>
           ELSE /\ lac' = EnterGetContext(frame, 1)
                /\ pc' = "tier1"
                /\ UNCHANGED loaded
    /\ UNCHANGED <<context, saved, fs, chroma_available, run, approval, outcome>>

\* get_context, tier 1: section extraction when the map names sections
Tier1 ==
    /\ pc = "tier1"
    /\ LET extracted == IF lac.wanted # <<>>
                        THEN extract_sections(lac.full_text, lac.wanted,
                                              lac.max_chars)
                        ELSE <<>>
           frame == [lac EXCEPT !.extracted = extracted,
                                !.invoked = IF lac.wanted # <<>>
                                            THEN <<1>> ELSE <<>>]
       IN  IF meaningful(extracted)
           THEN LeaveGetContext(frame, 1, accepted(extracted, lac.max_chars))
           ELSE /\ lac' = frame
                /\ pc' = "tier2"
                /\ UNCHANGED loaded
    /\ UNCHANGED <<context, saved, fs, chroma_available, run, approval, outcome>>

\* get_context, tier 2: semantic_search returns semantic_result, the chunks
\* of the index that the query matched
Tier2(semantic_result) ==
    /\ pc = "tier2"
    /\ chroma_available /\ context.project_id # "" /\ lac.wanted # <<>>
    /\ LET frame == [lac EXCEPT !.invoked = Append(@, 2)]
       IN  IF meaningful(semantic_result)
           THEN LeaveGetContext(frame, 2,
                                accepted(semantic_result, lac.max_chars))
           ELSE /\ lac' = frame
                /\ pc' = "tier3"
                /\ UNCHANGED loaded
    /\ UNCHANGED <<context, saved, fs, chroma_available, run, approval, outcome>>

\* get_context, tier 2 passed over: no ChromaDB, no project id or no query
Tier2Skipped ==
    /\ pc = "tier2"
    /\ ~(chroma_available /\ context.project_id # "" /\ lac.wanted # <<>>)
    /\ pc' = "tier3"
    /\ UNCHANGED <<context, saved, fs, chroma_available, run, lac, loaded,
                   approval, outcome>>

\* a fallback that returns the prefix without marking it
first_n_chars_unmarked(full_text, max_chars) == Take(full_text, max_chars)

\* the value tier 3 returns
first_n_chars(full_text, max_chars) ==
    IF Len(full_text) > max_chars
    THEN Take(full_text, max_chars) \o TruncationWarning
    ELSE full_text

\* get_context, tier 3: the first max_chars characters of the file
Tier3 ==
    /\ pc = "tier3"
    /\ LeaveGetContext([lac EXCEPT !.invoked = Append(@, 3)], 3,
                       first_n_chars(lac.full_text, lac.max_chars))
    /\ UNCHANGED <<context, saved, fs, chroma_available, run, approval, outcome>>

(***************************************************************************)
(* Checkpoint handler  (agents/orchestrator/orchestrator.py)               *)
(***************************************************************************)
W_APPROVE == <<"A", "P", "P", "R", "O", "V", "E">>

W_REJECT == <<"R", "E", "J", "E", "C", "T">>

\* input(...).strip().upper()
read_response(raw) == Upper(Strip(raw))

\* a gate whose loop takes every answer but REJECT for an approval
decide_unless_rejected(response) ==
    IF response = W_REJECT THEN "REJECT" ELSE "APPROVE"

\* the branch the input loop takes on a response
decide(response) ==
    IF response = W_APPROVE THEN "APPROVE"
    ELSE IF response = W_REJECT THEN "REJECT"
    ELSE "again"

\* a gate that logs an approval and nothing for a rejection
log_approval_only(ctx, checkpoint_name, approved) ==
    IF approved THEN log_event(ctx, "APPROVED: " \o checkpoint_name, "")
    ELSE ctx

\* the event the gate logs for the decision
log_decision(ctx, checkpoint_name, approved) ==
    IF approved THEN log_event(ctx, "APPROVED: " \o checkpoint_name, "")
    ELSE log_event(ctx, "REJECTED: " \o checkpoint_name, "")

MaxCheckpoints == 2

MaxPrompts == 1

IsRequestEvent(e) == \E n \in {"PRD", "TAD"} : e.event = "CHECKPOINT: " \o n

\* request_human_approval(context, checkpoint_name, summary) up to the first
\* input(): the human is notified, the request is logged and saved
request_human_approval(checkpoint_name) ==
    /\ pc = "idle"
    /\ Cardinality({k \in 1..Len(context.audit_log) :
                       IsRequestEvent(context.audit_log[k])}) < MaxCheckpoints
    /\ context' = log_event(context, "CHECKPOINT: " \o checkpoint_name,
                            "Awaiting human approval")
    /\ saved' = save_context(context')
    /\ approval' = [op |-> "request_human_approval",
                    checkpoint_name |-> checkpoint_name,
                    at |-> Len(context.audit_log),
                    prompts |-> 0,
                    last_input |-> <<>>]
    /\ pc' = "awaiting_input"
    /\ outcome' = NoFrame
    /\ UNCHANGED <<fs, chroma_available, run, lac, loaded>>

\* one pass of the input loop of request_human_approval on the line raw
human_response(raw) ==
    /\ pc = "awaiting_input"
    /\ LET branch == decide(read_response(raw))
       IN  IF branch = "again"
           THEN /\ approval.prompts < MaxPrompts
                /\ approval' = [approval EXCEPT !.prompts = @ + 1,
                                                !.last_input = raw]
                /\ UNCHANGED <<context, saved, pc, outcome>>
           ELSE /\ context' = log_decision(context, approval.checkpoint_name,
                                           branch = "APPROVE")
                /\ saved' = save_context(context')
                /\ outcome' = [op |-> "request_human_approval",
                               checkpoint_name |-> approval.checkpoint_name,
                               at |-> approval.at,
                               prompts |-> approval.prompts,
                               input |-> raw,
                               value |-> (branch = "APPROVE"),
                               audit_log |-> context'.audit_log,
                               persisted |-> saved'.data.audit_log]
                /\ approval' = NoFrame
                /\ pc' = "idle"
    /\ UNCHANGED <<fs, chroma_available, run, lac, loaded>>

\* PIPELINE: the completion labels of the stages marked "checkpoint": True
CheckpointedCompletions == {"PRD_COMPLETE", "ARCHITECTURE_COMPLETE"}

(***************************************************************************)
(* Handoff protocol  (agents/orchestrator/handoff.py)                      *)
(***************************************************************************)
\* create_handoff_package(context, delivering_crew, receiving_crew,
\*                        artifacts, summary, acceptance_criteria)
create_handoff_package(ctx, delivering_crew, receiving_crew, artifacts, summary, acceptance_criteria) ==
    [handoff_id |-> "HO-" \o ctx.project_id \o "-" \o delivering_crew
                        \o "2" \o receiving_crew,
     project_id |-> ctx.project_id,
     status |-> "PENDING_APPROVAL",
     delivering_crew |-> delivering_crew,
     receiving_crew |-> receiving_crew,
     summary |-> summary,
     artifacts |-> artifacts,
     acceptance_criteria |-> acceptance_criteria,
     limitations |-> <<>>,
     rejected_reason |-> <<>>]

\* crew.lower() for the crew names in use
crew_lower(crew) ==
    CASE crew = "DS" -> "ds" [] crew = "DEV" -> "dev" [] OTHER -> crew

\* the file save_handoff_package writes the package to
handoff_path(package) ==
    (IF crew_lower(package.delivering_crew) = "ds"
        /\ crew_lower(package.receiving_crew) = "dev" THEN "ds/handoffs"
     ELSE IF crew_lower(package.delivering_crew) = "dev"
        /\ crew_lower(package.receiving_crew) = "ds" THEN "dev/handoffs"
     ELSE "shared/handoffs")
    \o "/" \o package.handoff_id \o ".json"

\* save_handoff_package(context, package): the files afterwards
save_handoff_package(files, package) ==
    WriteFile(files, handoff_path(package), package)

SummaryMin == 20

\* the issues of the artifact references from the i-th on
\* (a reference without a path has path "")
RECURSIVE artifact_issues(_, _, _)
artifact_issues(artifacts, files, i) ==
    IF i > Len(artifacts) THEN <<>>
    ELSE (IF artifacts[i].path # "" /\ artifacts[i].path \notin files
          THEN <<"Missing artifact: " \o artifacts[i].path>> ELSE <<>>)
         \o artifact_issues(artifacts, files, i + 1)

\* validate_handoff(package, context) with files the paths that exist:
\* the issues list; is_valid is len(issues) == 0
validate_handoff(package, files) ==
    artifact_issues(package.artifacts, files, 1)
    \o (IF package.acceptance_criteria = <<>>
        THEN <<"No acceptance criteria defined">> ELSE <<>>)
    \o (IF package.summary = <<>> \/ Len(package.summary) < SummaryMin
        THEN <<"Summary too brief or missing">> ELSE <<>>)

\* "; ".join(issues)
RECURSIVE join_issues(_, _)
join_issues(issues, i) ==
    IF i > Len(issues) THEN ""
    ELSE IF i = Len(issues) THEN issues[i]
    ELSE issues[i] \o "; " \o join_issues(issues, i + 1)

\* an abort that also hands the project back to the delivering crew
abort_and_return_to_crew(ctx, package, issues) ==
    [log_event(ctx, "HANDOFF_VALIDATION_FAILED", join_issues(issues, 1))
        EXCEPT !.status = "RETURNED_TO_" \o package.delivering_crew]

\* what execute_handoff does to the context of an invalid package
abort_handoff(ctx, package, issues) ==
    log_event(ctx, "HANDOFF_VALIDATION_FAILED", join_issues(issues, 1))

MaxHandoffRuns == 1

HandoffRuns(ctx) ==
    Cardinality({k \in 1..Len(ctx.audit_log) :
        ctx.audit_log[k].event \in
            {"HANDOFF_VALIDATION_FAILED", "HANDOFF_PACKAGE_SAVED"}})

\* execute_handoff(context, package) up to its return for an invalid
\* package, or up to the first input() of request_handoff_approval
execute_handoff(package) ==
    /\ pc = "idle"
    /\ LET issues == validate_handoff(package, DOMAIN fs)
       IN  IF issues # <<>>
           THEN /\ context' = abort_handoff(context, package, issues)
                /\ saved' = save_context(context')
                /\ outcome' = [op |-> "execute_handoff",
                               package |-> package,
                               is_valid |-> FALSE,
                               issues |-> issues,
                               context_before |-> context,
                               saved_before |-> saved,
                               files_before |-> fs,
                               context_after |-> context',
                               saved_after |-> saved',
                               files_after |-> fs]
                /\ UNCHANGED <<fs, pc, approval>>
           ELSE /\ fs' = save_handoff_package(fs, package)
                /\ context' = log_event(context, "HANDOFF_PACKAGE_SAVED",
                                        handoff_path(package))
                /\ approval' = [op |-> "execute_handoff",
                                package |-> package,
                                package_path |-> handoff_path(package),
                                is_valid |-> TRUE,
                                issues |-> issues,
                                context_before |-> context,
                                saved_before |-> saved,
                                files_before |-> fs,
                                prompts |-> 0]
                /\ pc' = "handoff_awaiting_input"
                /\ outcome' = NoFrame
                /\ UNCHANGED saved
    /\ UNCHANGED <<chroma_available, run, lac, loaded>>

\* a step 4 that records a rejection without handing the project back
finish_handoff_keeps_status(ctx, package, package_path, approved) ==
    IF approved
    THEN [ctx EXCEPT
            !.handoffs = Append(@, [handoff_id |-> package.handoff_id,
                                    status |-> "APPROVED",
                                    path |-> package_path]),
            !.status = "ACTIVE_" \o package.receiving_crew \o "_PHASE2",
            !.next_action = package.receiving_crew
                              \o "_CREW: Begin work on received artifacts"]
    ELSE [ctx EXCEPT
            !.handoffs = Append(@, [handoff_id |-> package.handoff_id,
                                    status |-> "REJECTED",
                                    reason |-> package.rejected_reason])]

\* execute_handoff, step 4, and its return
finish_handoff(ctx, package, package_path, approved) ==
    IF approved
    THEN [ctx EXCEPT
            !.handoffs = Append(@, [handoff_id |-> package.handoff_id,
                                    status |-> "APPROVED",
                                    path |-> package_path]),
            !.status = "ACTIVE_" \o package.receiving_crew \o "_PHASE2",
            !.next_action = package.receiving_crew
                              \o "_CREW: Begin work on received artifacts"]
    ELSE [ctx EXCEPT
            !.handoffs = Append(@, [handoff_id |-> package.handoff_id,
                                    status |-> "REJECTED",
                                    reason |-> package.rejected_reason]),
            !.status = "RETURNED_TO_" \o package.delivering_crew,
            !.next_action = package.delivering_crew
                              \o "_CREW: Address rejection and resubmit handoff"]

ReturnFromHandoff(package, approved, raw) ==
    /\ saved' = save_context(context')
    /\ outcome' = [op |-> "execute_handoff",
                   package |-> package,
                   input |-> raw,
                   is_valid |-> TRUE,
                   approved |-> approved,
                   issues |-> <<>>,
                   context_before |-> approval.context_before,
                   saved_before |-> approval.saved_before,
                   files_before |-> approval.files_before,
                   context_after |-> context',
                   saved_after |-> saved',
                   files_after |-> fs]
    /\ approval' = NoFrame
    /\ pc' = "idle"

\* one pass of the input loop of request_handoff_approval on the line raw;
\* an approval runs on to the return of execute_handoff
handoff_response(raw) ==
    /\ pc = "handoff_awaiting_input"
    /\ LET branch == decide(read_response(raw))
           package == [approval.package EXCEPT !.status = "APPROVED"]
       IN  CASE branch = "APPROVE" ->
                  /\ context' = finish_handoff(
                         log_event(context,
                             "HANDOFF APPROVED: " \o package.handoff_id, ""),
                         package, approval.package_path, TRUE)
                  /\ ReturnFromHandoff(package, TRUE, raw)
             [] branch = "REJECT" ->
                  /\ pc' = "handoff_awaiting_reason"
                  /\ UNCHANGED <<context, saved, approval, outcome>>
             [] OTHER ->
                  /\ approval.prompts < MaxPrompts
                  /\ approval' = [approval EXCEPT !.prompts = @ + 1]
                  /\ UNCHANGED <<context, saved, pc, outcome>>
    /\ UNCHANGED <<fs, chroma_available, run, lac, loaded>>

\* request_handoff_approval after REJECT: the reason is read, the
\* rejection logged and saved, and execute_handoff runs on to its return
handoff_reason(raw) ==
    /\ pc = "handoff_awaiting_reason"
    /\ LET package == [approval.package EXCEPT !.status = "REJECTED",
                                               !.rejected_reason = Strip(raw)]
       IN  /\ context' = finish_handoff(
                  log_event(context,
                      "HANDOFF REJECTED: " \o package.handoff_id, Strip(raw)),
                  package, approval.package_path, FALSE)
           /\ ReturnFromHandoff(package, FALSE, raw)
    /\ UNCHANGED <<fs, chroma_available, run, lac, loaded>>

(***************************************************************************)
(* Documents the agents produce, and the other inputs of the operations    *)
(***************************************************************************)
H_DatabaseSchema ==
    <<"#", "#", " ", "D", "a", "t", "a", "b", "a", "s", "e", " ",
      "S", "c", "h", "e", "m", "a">>

H_ApiEndpoints ==
    <<"#", "#", " ", "A", "P", "I", " ", "E", "n", "d", "p", "o", "i", "n", "t", "s">>

H_BackendReport ==
    <<"#", " ", "B", "a", "c", "k", "e", "n", "d", " ", "R", "e", "p", "o", "r", "t">>

H_DataArchitecture ==
    <<"#", "#", " ", "D", "a", "t", "a", " ",
      "A", "r", "c", "h", "i", "t", "e", "c", "t", "u", "r", "e">>

W_DatabaseSchema == DBA_BIR[1]

ShortBody == 30

MidBody == 100

LongBody == 700

OverBudget == 100

SmallMaxChars == 600

\* a report whose only section is "Database Schema", n characters long
SchemaOnly(n) ==
    [text |-> H_DatabaseSchema \o <<NL>> \o Fill("d", n),
     schema |-> Fill("d", n)]

\* a short report: title, introduction, two short sections
ShortReport ==
    [text |-> H_BackendReport \o <<NL, "i", "n", "t", "r", "o", NL>>
                \o H_DatabaseSchema \o <<NL>> \o Fill("d", ShortBody) \o <<NL>>
                \o H_ApiEndpoints \o <<NL>> \o Fill("e", ShortBody),
     schema |-> Fill("d", ShortBody)]

\* a long "API Endpoints" section ahead of the "Database Schema" section
EndpointsFirst ==
    [text |-> H_ApiEndpoints \o <<NL>> \o Fill("e", LongBody) \o <<NL>>
                \o H_DatabaseSchema \o <<NL>> \o Fill("d", MidBody),
     schema |-> Fill("d", MidBody)]

\* a document without any heading
FlatReport == [text |-> Fill("x", LongBody), schema |-> <<>>]

ExtractDocs ==
    {ShortReport,
     SchemaOnly(MIN_USEFUL - Len(SectionHeader(W_DatabaseSchema))),
     SchemaOnly(MIN_USEFUL - Len(SectionHeader(W_DatabaseSchema)) + 1),
     EndpointsFirst,
     FlatReport,
     SchemaOnly(DefaultMaxChars + OverBudget)}

\* what the semantic index may answer: nothing, too little, or enough
SemanticResults ==
    {<<>>, Fill("s", MIN_USEFUL), Fill("s", MIN_USEFUL + 1)}

LoadDocs ==
    [tad |-> H_DataArchitecture \o <<NL>> \o Fill("a", ShortBody),
     bir |-> ShortReport.text,
     bir_r |-> H_DatabaseSchema \o <<NL>> \o Fill("r", ShortBody)]

\* what a stage writes where the text does not matter
StageDoc == <<"#", " ", "x">>

CheckpointNames == {"PRD", "TAD"}

\* lines typed at the prompt
ConsoleLines ==
    {W_APPROVE,
     <<" ", "a", "p", "p", "r", "o", "v", "e", NL>>,
     W_REJECT,
     <<"r", "e", "j", "e", "c", "t", " ">>,
     <<"y", "e", "s">>,
     <<>>,
     W_APPROVE \o <<"D">>}

\* artifact references of a package: to the BIR, to the TAD, and one
\* that names no file
Ref_BIR == [name |-> "Backend report", path |-> BirPath]

Ref_TAD == [name |-> "Architecture", path |-> TadPath]

Ref_NoPath == [name |-> "Data schema", path |-> ""]

AcceptanceCriteria == <<"Dashboard loads in under 2 seconds">>

\* what the delivering crew puts into a package:
\* <<artifact references, length of the summary, acceptance criteria>>
PackageInputs ==
    {<<<<Ref_BIR, Ref_TAD>>, SummaryMin, AcceptanceCriteria>>,
     <<<<Ref_BIR, Ref_TAD>>, SummaryMin - 1, <<>>>>,
     <<<<Ref_BIR>>, SummaryMin, AcceptanceCriteria>>,
     <<<<Ref_NoPath>>, SummaryMin, AcceptanceCriteria>>,
     <<<<Ref_TAD, Ref_NoPath>>, 0, AcceptanceCriteria>>,
     <<<<>>, SummaryMin, <<>>>>}

\* the packages a delivering crew submits
HandoffPackages ==
    {create_handoff_package(context, "DS", "DEV", in[1], Fill("s", in[2]), in[3]) :
        in \in PackageInputs}

ReasonLines ==
    {<<>>, <<" ", "n", "o", " ", "c", "r", "i", "t", "e", "r", "i", "a", NL>>}

LoadRequests ==
    {<<T_BIR>>, <<T_BIR, T_TAD>>, <<T_TAD, T_BIR_R>>}

(***************************************************************************)
(* Specifications                                                          *)
(***************************************************************************)
InitProject(classification) ==
    /\ context = classify_project(classification)
    /\ saved = save_context(context)
    /\ fs = <<>>
    /\ pc = "idle"
    /\ lac = NoFrame
    /\ loaded = NoFrame
    /\ approval = NoFrame
    /\ outcome = NoFrame
    /\ run = NoFrame

\* a classified project; the stages, the gate and the handoff never
\* import the extraction module
Init ==
    /\ InitProject("DEV")
    /\ chroma_available = FALSE

\* a classified project in a process that imported smart_extract, with or
\* without the chromadb package installed
InitExtraction ==
    /\ InitProject("DEV")
    /\ chroma_available \in BOOLEAN

\* the pipeline's stages and the approval gate
Next ==
    \/ run_requirements_phase(StageDoc)
    \/ run_architecture_design(StageDoc)
    \/ run_backend_implementation(StageDoc)
    \/ \E checkpoint_name \in CheckpointNames :
           request_human_approval(checkpoint_name)
    \/ \E raw \in ConsoleLines : human_response(raw)

Spec == Init /\ [][Next]_vars

\* artifact store and context loader: stages append artifacts, files go
\* missing, consumers load
NextLoad ==
    \/ run_architecture_design(LoadDocs.tad)
    \/ run_backend_implementation(LoadDocs.bir)
    \/ run_bir_retrofit(LoadDocs.bir_r)
    \/ \E path \in {TadPath, BirPath, BirRevisedPath} : FileGone(path)
    \/ \E types \in LoadRequests :
           load_agent_context("dba", types, DefaultMaxChars)
    \/ Tier1
    \/ \E r \in SemanticResults : Tier2(r)
    \/ Tier2Skipped
    \/ Tier3

SpecLoad == InitExtraction /\ [][NextLoad]_vars

\* the tier cascade on the BIR of one backend run
MaxExtractRuns == 1

NextExtract ==
    \/ /\ Len(context.artifacts) < MaxExtractRuns
       /\ \E d \in ExtractDocs : run_backend_implementation(d.text)
    \/ \E consumer \in {"dba", "verify", "qa_lead"},
          max_chars \in {SmallMaxChars, DefaultMaxChars} :
           load_agent_context(consumer, <<T_BIR>>, max_chars)
    \/ Tier1
    \/ \E r \in SemanticResults : Tier2(r)
    \/ Tier2Skipped
    \/ Tier3

SpecExtract == InitExtraction /\ [][NextExtract]_vars

\* crew handoffs over the artifacts of two stages
NextHandoff ==
    \/ run_architecture_design(StageDoc)
    \/ run_backend_implementation(StageDoc)
    \/ \E path \in {TadPath, BirPath} : FileGone(path)
    \/ /\ HandoffRuns(context) < MaxHandoffRuns
       /\ \E package \in HandoffPackages : execute_handoff(package)
    \/ \E raw \in ConsoleLines : handoff_response(raw)
    \/ \E raw \in ReasonLines : handoff_reason(raw)

SpecHandoff == Init /\ [][NextHandoff]_vars

\* a rejected handoff is submitted again: the delivering crew's packages
\* over the backend report, in either direction, with the first or the
\* updated acceptance criteria
MaxResubmits == 2

UpdatedCriteria ==
    <<"Dashboard loads in under 2 seconds", "Filterable by month">>

CrewPairs == {<<"DS", "DEV">>, <<"DEV", "DS">>}

ResubmitPackages ==
    {create_handoff_package(context, pair[1], pair[2], <<Ref_BIR>>,
                            Fill("s", SummaryMin), criteria) :
        pair \in CrewPairs, criteria \in {AcceptanceCriteria, UpdatedCriteria}}

NextResubmit ==
    \/ run_backend_implementation(StageDoc)
    \/ /\ HandoffRuns(context) < MaxResubmits
       /\ \E package \in ResubmitPackages : execute_handoff(package)
    \/ \E raw \in ConsoleLines : handoff_response(raw)
    \/ \E raw \in ReasonLines : handoff_reason(raw)

SpecResubmit == Init /\ [][NextResubmit]_vars

(***************************************************************************)
(* A stage as a process of its own: its entry point loads the context      *)
(* file, the crew runs, the document is written, the context is changed    *)
(* in memory and save_context rewrites the file.  The process can die at   *)
(* any point, and a write can raise.                                       *)
(***************************************************************************)
T_MOBILE_PTR == <<"M", "O", "B", "I", "L", "E", "_", "P", "T", "R">>

MobilePtrPath ==
    "/home/mfelkey/dev-team/dev/mobile/security/PROJ-0A1B2C3D_MOBILE_PTR.md"

\* what each stage registers: the artifact's type, path and creator, the
\* completion event, and whether the stage sets status to it
StageOf(op) ==
    IF op = "run_backend_implementation"
    THEN [type |-> T_BIR, path |-> BirPath, created_by |-> "Backend Developer",
          label |-> "BACKEND_COMPLETE", sets_status |-> TRUE]
    ELSE [type |-> T_MOBILE_PTR, path |-> MobilePtrPath,
          created_by |-> "Mobile Penetration Tester",
          label |-> "MOBILE_PTR_COMPLETE", sets_status |-> FALSE]

\* the context file as text
context_file(text) == [exists |-> TRUE, text |-> text]

\* with open(path) as f: context = json.load(f)
read_context(file) == json_load(file.text)

Loadable(file) == file.exists /\ read_context(file) # JSONDecodeError

\* the entry point of a stage: load the context file, then start the crew.
\* mobile_penetration_tester.py falls back to stubs of log_event and
\* save_context when the orchestrator module cannot be imported; the
\* other stages import it unguarded and do not start without it.
start_stage(op, importable) ==
    /\ pc = "idle"
    /\ importable \/ op = "run_mobile_penetration_test"
    /\ Loadable(saved)
    /\ Len(ContextOf(read_context(saved)).artifacts) < MaxArtifacts
    /\ context' = ContextOf(read_context(saved))
    /\ run' = [op |-> op, importable |-> importable,
               context_before |-> context', file_before |-> saved]
    /\ pc' = "kickoff"
    /\ outcome' = NoFrame
    /\ UNCHANGED <<saved, fs, chroma_available, lac, loaded, approval>>

\* crew.kickoff() returns and the document is written
write_artifact(text) ==
    /\ pc = "kickoff"
    /\ fs' = WriteFile(fs, StageOf(run.op).path, text)
    /\ pc' = "artifact_written"
    /\ UNCHANGED <<context, saved, chroma_available, lac, loaded, approval,
                   outcome, run>>

\* context["artifacts"].append({...})
artifacts_append(ctx, op) ==
    [ctx EXCEPT !.artifacts =
        Append(@, [type |-> StageOf(op).type, path |-> StageOf(op).path,
                   created_by |-> StageOf(op).created_by])]

\* context["status"] = "<label>", in the stages that set it
set_status(ctx, op) ==
    IF StageOf(op).sets_status
    THEN [ctx EXCEPT !.status = StageOf(op).label]
    ELSE ctx

\* log_event(context, "<label>", path); the stub of log_event does nothing
log_completion(ctx, op, importable) ==
    IF importable THEN log_event(ctx, StageOf(op).label, StageOf(op).path)
    ELSE ctx

\* the changes of the context in memory: the artifact record, status, and
\* the completion event, in the order of the statements
register_artifact(ctx, op, importable) ==
    log_completion(set_status(artifacts_append(ctx, op), op), op, importable)

register ==
    /\ pc = "artifact_written"
    /\ context' = register_artifact(context, run.op, run.importable)
    /\ pc' = "registered"
    /\ UNCHANGED <<saved, fs, chroma_available, lac, loaded, approval,
                   outcome, run>>

\* the return of the stage to its caller
StageReturns(file) ==
    /\ outcome' = [op |-> run.op, returned |-> TRUE,
                   importable |-> run.importable,
                   context |-> context,
                   context_before |-> run.context_before,
                   file_before |-> run.file_before]
    /\ run' = NoFrame
    /\ pc' = "idle"

\* the stub save_context of the fallback: nothing is written
save_context_stub(file, ctx) == file

\* save_context when the orchestrator module is there: open(path, "w")
\* leaves the file empty until json.dump has written it
save_context_opened(file, ctx) == context_file(<<>>)

\* save_context, first half: the stub returns at once, the real one has
\* opened the file
save_open ==
    /\ pc = "registered"
    /\ IF run.importable
       THEN /\ saved' = save_context_opened(saved, context)
            /\ pc' = "dumping"
            /\ UNCHANGED <<outcome, run>>
       ELSE /\ saved' = save_context_stub(saved, context)
            /\ StageReturns(saved')
    /\ UNCHANGED <<context, fs, chroma_available, lac, loaded, approval>>

\* save_context, second half: json.dump has written everything, the file
\* is closed and the stage returns
save_close ==
    /\ pc = "dumping"
    /\ saved' = context_file(json_dump(ContextTree(context)))
    /\ StageReturns(saved')
    /\ UNCHANGED <<context, fs, chroma_available, lac, loaded, approval>>

\* how much of a text of n tokens is in the file when the write stops
TornLengths(n) == {0, n \div 2, n - 1}

\* the stage does not return: the process was killed, or a call raised
StageEnds(how) ==
    /\ outcome' = [op |-> run.op, returned |-> FALSE, how |-> how, at |-> pc,
                   importable |-> run.importable,
                   context_before |-> run.context_before,
                   file_before |-> run.file_before]
    /\ run' = NoFrame
    /\ pc' = "idle"
    /\ UNCHANGED <<context, fs, chroma_available, lac, loaded, approval>>

\* the file after a write of the context that stopped part-way
TornFile(ctx, k) == context_file(Take(json_dump(ContextTree(ctx)), k))

\* the process is killed (or the machine stops) at any point of the stage
crash ==
    /\ pc \in {"kickoff", "artifact_written", "appended", "labelled",
              "registered", "dumping"}
    /\ IF pc = "dumping"
       THEN \E k \in TornLengths(Len(json_dump(ContextTree(context)))) :
                saved' = TornFile(context, k)
       ELSE UNCHANGED saved
    /\ StageEnds("killed")

\* a write raises OSError (disk full, no permission): the open or the write
\* of the document, the open of the context file, or json.dump part-way
write_raises ==
    /\ pc \in {"kickoff", "registered", "dumping"}
    /\ pc = "registered" => run.importable
    /\ IF pc = "dumping"
       THEN \E k \in TornLengths(Len(json_dump(ContextTree(context)))) :
                saved' = TornFile(context, k)
       ELSE UNCHANGED saved
    /\ StageEnds("raised")

StageOps == {"run_backend_implementation", "run_mobile_penetration_test"}

\* a project as classified, and one whose first handoff was rejected
RejectedPackage ==
    [create_handoff_package(classify_project("DEV"), "DS", "DEV",
                            <<Ref_NoPath>>, Fill("s", SummaryMin),
                            AcceptanceCriteria)
        EXCEPT !.status = "REJECTED",
               !.rejected_reason = <<"n", "o", " ", Quote, "S", "L", "A", Quote,
                                     " ", EmDash, " ", "r", "e", "d", "o">>]

RejectedOnce ==
    finish_handoff(
        log_event(log_event(classify_project("DEV"), "HANDOFF_PACKAGE_SAVED",
                            handoff_path(RejectedPackage)),
                  "HANDOFF REJECTED: " \o RejectedPackage.handoff_id,
                  RejectedPackage.rejected_reason),
        RejectedPackage, handoff_path(RejectedPackage), FALSE)

InitDurable ==
    /\ context \in {classify_project("DEV"), RejectedOnce}
    /\ saved = context_file(json_dump(ContextTree(context)))
    /\ fs = <<>>
    /\ chroma_available = FALSE
    /\ pc = "idle"
    /\ lac = NoFrame
    /\ loaded = NoFrame
    /\ approval = NoFrame
    /\ outcome = NoFrame
    /\ run = NoFrame

NextDurable ==
    \/ \E op \in StageOps, importable \in BOOLEAN : start_stage(op, importable)
    \/ write_artifact(StageDoc)
    \/ register
    \/ save_open
    \/ save_close
    \/ crash
    \/ write_raises

SpecDurable == InitDurable /\ [][NextDurable]_vars

\* the same stage statement by statement: the record is appended, status
\* is set, the completion event is logged
append_step ==
    /\ pc = "artifact_written"
    /\ context' = artifacts_append(context, run.op)
    /\ pc' = "appended"
    /\ UNCHANGED <<saved, fs, chroma_available, lac, loaded, approval,
                   outcome, run>>

status_step ==
    /\ pc = "appended"
    /\ context' = set_status(context, run.op)
    /\ pc' = "labelled"
    /\ UNCHANGED <<saved, fs, chroma_available, lac, loaded, approval,
                   outcome, run>>

log_step ==
    /\ pc = "labelled"
    /\ context' = log_completion(context, run.op, run.importable)
    /\ pc' = "registered"
    /\ UNCHANGED <<saved, fs, chroma_available, lac, loaded, approval,
                   outcome, run>>

NextStatements ==
    \/ \E op \in StageOps, importable \in BOOLEAN : start_stage(op, importable)
    \/ write_artifact(StageDoc)
    \/ append_step
    \/ status_step
    \/ log_step
    \/ save_open
    \/ save_close
    \/ crash
    \/ write_raises

SpecStatements == InitDurable /\ [][NextStatements]_vars

(***************************************************************************)
(* execute_handoff save by save: request_handoff_approval logs the         *)
(* decision and saves the context, then step 4 appends the record, sets    *)
(* status and saves again.  The process can die between the two.           *)
(***************************************************************************)
\* request_handoff_approval, one line read at "Type APPROVE or REJECT"
approval_line(raw) ==
    /\ pc = "handoff_awaiting_input"
    /\ LET branch == decide(read_response(raw))
           package == [approval.package EXCEPT !.status = "APPROVED"]
       IN  CASE branch = "APPROVE" ->
                  /\ context' = log_event(context,
                         "HANDOFF APPROVED: " \o package.handoff_id, "")
                  /\ saved' = save_context(context')
                  /\ approval' = [package |-> package, approved |-> TRUE,
                                  input |-> raw] @@ approval
                  /\ pc' = "handoff_decided"
             [] branch = "REJECT" ->
                  /\ pc' = "handoff_awaiting_reason"
                  /\ UNCHANGED <<context, saved, approval>>
             [] OTHER ->
                  /\ approval.prompts < MaxPrompts
                  /\ approval' = [approval EXCEPT !.prompts = @ + 1]
                  /\ UNCHANGED <<context, saved, pc>>
    /\ UNCHANGED <<fs, chroma_available, run, lac, loaded, outcome>>

\* request_handoff_approval, the line read at "Enter rejection reason"
approval_reason(raw) ==
    /\ pc = "handoff_awaiting_reason"
    /\ LET package == [approval.package EXCEPT !.status = "REJECTED",
                                               !.rejected_reason = Strip(raw)]
       IN  /\ context' = log_event(context,
                  "HANDOFF REJECTED: " \o package.handoff_id, Strip(raw))
           /\ saved' = save_context(context')
           /\ approval' = [package |-> package, approved |-> FALSE,
                           input |-> raw] @@ approval
           /\ pc' = "handoff_decided"
    /\ UNCHANGED <<fs, chroma_available, run, lac, loaded, outcome>>

\* execute_handoff, step 4: the record, status, next_action, and the save
update_context ==
    /\ pc = "handoff_decided"
    /\ context' = finish_handoff(context, approval.package,
                                 approval.package_path, approval.approved)
    /\ ReturnFromHandoff(approval.package, approval.approved, approval.input)
    /\ UNCHANGED <<fs, chroma_available, run, lac, loaded>>

\* the process is killed while it waits for the human or before step 4;
\* the next process starts from the context file
handoff_killed ==
    /\ pc \in {"handoff_awaiting_input", "handoff_awaiting_reason",
               "handoff_decided"}
    /\ context' = saved.data
    /\ outcome' = [op |-> "execute_handoff", returned |-> FALSE, at |-> pc,
                   package |-> approval.package]
    /\ approval' = NoFrame
    /\ pc' = "idle"
    /\ UNCHANGED <<saved, fs, chroma_available, run, lac, loaded>>

NextHandoffSaves ==
    \/ run_architecture_design(StageDoc)
    \/ run_backend_implementation(StageDoc)
    \/ /\ HandoffRuns(context) < MaxHandoffRuns
       /\ \E package \in HandoffPackages : execute_handoff(package)
    \/ \E raw \in ConsoleLines : approval_line(raw)
    \/ \E raw \in ReasonLines : approval_reason(raw)
    \/ update_context
    \/ handoff_killed

SpecHandoffSaves == Init /\ [][NextHandoffSaves]_vars

(***************************************************************************)
(* Semantic index  (agents/utils/smart_extract.py) and two projects that   *)
(* run as separate processes over the same logs directory and the same     *)
(* ChromaDB collection                                                     *)
(***************************************************************************)
CHROMA_DIR == "~/dev-team/data/chromadb"

ChunkSize == 1500

ChunkOverlap == 200

\* re.split(r"\n\n+", text)
split_paragraphs(text) ==
    LET starts == {i \in 1..(Len(text) - 1) :
                      /\ text[i] = NL /\ text[i + 1] = NL
                      /\ (i = 1 \/ text[i - 1] # NL)}
        k == Cardinality(starts)
        from(j) == IF j = 1 THEN 1
                   ELSE SkipForward(text, {NL}, Nth(starts, j - 1))
        to(j) == IF j = k + 1 THEN Len(text) ELSE Nth(starts, j) - 1
    IN  [j \in 1..(k + 1) |-> SubSeq(text, from(j), to(j))]

\* current_chunk[-overlap:]
LastChars(t, n) == SubSeq(t, Len(t) - n + 1, Len(t))

\* the loop of _chunk_text from paragraph i on
RECURSIVE chunk_loop(_, _, _, _)
chunk_loop(paragraphs, i, current_chunk, chunks) ==
    IF i > Len(paragraphs)
    THEN IF Strip(current_chunk) # <<>>
         THEN Append(chunks, Strip(current_chunk)) ELSE chunks
    ELSE LET para == paragraphs[i]
         IN  IF Len(current_chunk) + Len(para) > ChunkSize
                /\ current_chunk # <<>>
             THEN chunk_loop(paragraphs, i + 1,
                      IF ChunkOverlap > 0 /\ Len(current_chunk) > ChunkOverlap
                      THEN LastChars(current_chunk, ChunkOverlap)
                               \o <<NL, NL>> \o para
                      ELSE para,
                      Append(chunks, Strip(current_chunk)))
             ELSE chunk_loop(paragraphs, i + 1,
                      IF current_chunk # <<>>
                      THEN current_chunk \o <<NL, NL>> \o para ELSE para,
                      chunks)

\* _chunk_text(text) with the default chunk_size and overlap
chunk_text(text) == chunk_loop(split_paragraphs(text), 1, <<>>, <<>>)

\* _file_hash(filepath): content hash and modification time
file_hash(file) == <<file.text, file.mtime>>

\* a prefix that leaves the project out
source_prefix_by_type(project_id, artifact_type) == "_" \o artifact_type

\* prefix = f"{project_id}_{artifact_type}"
source_prefix(project_id, artifact_type) == project_id \o "_" \o artifact_type

\* the collection as the files under CHROMA_DIR hold it: id -> entry
Collection(files) ==
    IF CHROMA_DIR \in DOMAIN files THEN files[CHROMA_DIR] ELSE <<>>

\* collection.get(where={"source_prefix": prefix}): the ids
ids_of_prefix(collection, prefix) ==
    {id \in DOMAIN collection : collection[id].metadata.source_prefix = prefix}

\* collection.delete(ids=ids)
collection_delete(collection, ids) ==
    [id \in (DOMAIN collection) \ ids |-> collection[id]]

\* ids, documents and metadatas of index_artifact, as one entry per chunk
chunk_entries(filepath, artifact_type, project_id, file) ==
    LET chunks == chunk_text(file.text)
        prefix == source_prefix(project_id, artifact_type)
    IN  [i \in 1..Len(chunks) |->
            [id |-> prefix \o "_chunk_" \o ToString(i - 1),
             document |-> chunks[i],
             metadata |-> [project_id |-> project_id,
                           artifact_type |-> artifact_type,
                           source_prefix |-> prefix,
                           filepath |-> filepath,
                           file_hash |-> file_hash(file),
                           chunk_index |-> i - 1,
                           total_chunks |-> Len(chunks)]]]

\* collection.add(ids, documents, metadatas)
RECURSIVE collection_add(_, _, _)
collection_add(collection, entries, i) ==
    IF i > Len(entries) THEN collection
    ELSE collection_add(
             (entries[i].id :> [document |-> entries[i].document,
                                metadata |-> entries[i].metadata])
                 @@ collection,
             entries, i + 1)

\* the where filter of semantic_search
where_filter(entry, artifact_type, project_id) ==
    IF artifact_type # "" /\ project_id # ""
    THEN entry.metadata.artifact_type = artifact_type
            /\ entry.metadata.project_id = project_id
    ELSE IF artifact_type # ""
    THEN entry.metadata.artifact_type = artifact_type
    ELSE IF project_id # ""
    THEN entry.metadata.project_id = project_id
    ELSE TRUE

NResults == 5

\* collection.query(query_texts, n_results, where): the n_results nearest of
\* the entries the filter lets through, in the order of their distance,
\* which the embedding decides
query_results(collection, artifact_type, project_id) ==
    LET matching == {id \in DOMAIN collection :
                        where_filter(collection[id], artifact_type, project_id)}
        n == Min2(NResults, Cardinality(matching))
    IN  {r \in [1..n -> matching] : \A i, j \in 1..n : i # j => r[i] # r[j]}

OtherProjectId == "PROJ-4E5F6A7B"

\* one process per project
ProjectIds == <<ProjectId, OtherProjectId>>

Procs == {1, 2}

LogsPath(ctx) == "logs/" \o ctx.project_id \o ".json"

SrrPath(ctx) == "dev/security/" \o ctx.project_id \o "_SRR.md"

MaxReviews == 2

WriteTimes == {1, 2}

\* the reports the security reviewer of a project writes: one paragraph, or
\* two paragraphs that do not fit one chunk
ParagraphLen == 800

ReviewDocs(p) ==
    LET c == IF p = 1 THEN "p" ELSE "q"
    IN  {Fill(c, 3),
         Fill(c, ParagraphLen) \o <<NL, NL>> \o Fill(c, ParagraphLen)}

Idle == [op |-> "none", pc |-> "idle"]

\* run_security_review after the crew returned: the report is written and
\* its record appended
write_srr(p, text, mtime) ==
    /\ run[p].pc = "idle"
    /\ Len(context[p].artifacts) < MaxReviews
    /\ fs' = WriteFile(fs, SrrPath(context[p]), [text |-> text, mtime |-> mtime])
    /\ context' = [context EXCEPT ![p].artifacts =
                      Append(@, [type |-> "SRR", path |-> SrrPath(context[p]),
                                 created_by |-> "Security Reviewer"])]
    /\ run' = [run EXCEPT ![p] = [op |-> "on_artifact_saved", pc |-> "appended",
                                  artifact_type |-> "SRR",
                                  filepath |-> SrrPath(context[p]),
                                  project_id |-> context[p].project_id]]
    /\ UNCHANGED <<saved, chroma_available, pc, lac, loaded, approval, outcome>>

\* on_artifact_saved and index_artifact up to the check of the stored hash
index_check(p) ==
    /\ run[p].pc = "appended"
    /\ IF ~chroma_available \/ run[p].filepath \notin DOMAIN fs
       THEN run' = [run EXCEPT ![p].pc = "indexed"]
       ELSE LET prefix == source_prefix(run[p].project_id, run[p].artifact_type)
                existing == ids_of_prefix(Collection(fs), prefix)
                hash == file_hash(fs[run[p].filepath])
            IN  \/ /\ existing = {}
                   /\ run' = [run EXCEPT ![p] =
                                 [pc |-> "stale", file_hash |-> hash] @@ @]
                \/ \E first \in existing :
                       run' = [run EXCEPT ![p] =
                           [pc |-> IF Collection(fs)[first].metadata.file_hash = hash
                                   THEN "indexed" ELSE "stale",
                            file_hash |-> hash] @@ @]
    /\ UNCHANGED <<context, saved, fs, chroma_available, pc, lac, loaded,
                   approval, outcome>>

\* old_ids = collection.get(where={"source_prefix": prefix})
index_get_old(p) ==
    /\ run[p].pc = "stale"
    /\ run' = [run EXCEPT ![p] =
                  [pc |-> "old_ids",
                   old_ids |-> ids_of_prefix(Collection(fs),
                                   source_prefix(run[p].project_id,
                                                 run[p].artifact_type))] @@ @]
    /\ UNCHANGED <<context, saved, fs, chroma_available, pc, lac, loaded,
                   approval, outcome>>

\* collection.delete(ids=old_ids["ids"])
index_delete(p) ==
    /\ run[p].pc = "old_ids"
    /\ fs' = IF run[p].old_ids = {} THEN fs
             ELSE WriteFile(fs, CHROMA_DIR,
                            collection_delete(Collection(fs), run[p].old_ids))
    /\ run' = [run EXCEPT ![p].pc = "deleted"]
    /\ UNCHANGED <<context, saved, chroma_available, pc, lac, loaded,
                   approval, outcome>>

\* the file is read and chunked, and the chunks are added
index_add(p) ==
    /\ run[p].pc = "deleted"
    /\ LET entries == chunk_entries(run[p].filepath, run[p].artifact_type,
                                    run[p].project_id, fs[run[p].filepath])
       IN  fs' = IF entries = <<>> THEN fs
                 ELSE WriteFile(fs, CHROMA_DIR,
                                collection_add(Collection(fs), entries, 1))
    /\ run' = [run EXCEPT ![p].pc = "indexed"]
    /\ UNCHANGED <<context, saved, chroma_available, pc, lac, loaded,
                   approval, outcome>>

\* status, the completion event, and save_context(context)
complete_review(p) ==
    /\ run[p].pc = "indexed"
    /\ context' = [context EXCEPT ![p] =
                      log_event([@ EXCEPT !.status = "SECURITY_REVIEW_COMPLETE"],
                                "SECURITY_REVIEW_COMPLETE", run[p].filepath)]
    /\ fs' = WriteFile(fs, LogsPath(context'[p]), context'[p])
    /\ run' = [run EXCEPT ![p] = Idle]
    /\ UNCHANGED <<saved, chroma_available, pc, lac, loaded, approval, outcome>>

\* get_context, tier 2, in a consumer of project p: semantic_search with the
\* artifact type and the project id of the loaded context
tier2_search(p) ==
    /\ run[p].pc = "idle"
    /\ chroma_available /\ context[p].project_id # ""
    /\ \E r \in query_results(Collection(fs), "SRR", context[p].project_id) :
           run' = [run EXCEPT ![p] =
                      [op |-> "semantic_search", pc |-> "idle",
                       project_id |-> context[p].project_id,
                       results |-> [i \in 1..Len(r) |->
                                       [id |-> r[i],
                                        document |-> Collection(fs)[r[i]].document,
                                        metadata |-> Collection(fs)[r[i]].metadata]]]]
    /\ UNCHANGED <<context, saved, fs, chroma_available, pc, lac, loaded,
                   approval, outcome>>

\* two classified projects, each saved, and an empty index
InitProjects ==
    /\ context = [p \in Procs |->
                     [classify_project("DEV") EXCEPT !.project_id = ProjectIds[p]]]
    /\ fs = [path \in {LogsPath(context[p]) : p \in Procs} |->
                context[CHOOSE p \in Procs : LogsPath(context[p]) = path]]
    /\ run = [p \in Procs |-> Idle]
    /\ chroma_available \in BOOLEAN
    /\ saved = NoFrame
    /\ pc = "idle"
    /\ lac = NoFrame
    /\ loaded = NoFrame
    /\ approval = NoFrame
    /\ outcome = NoFrame

NextProjects ==
    \/ \E p \in Procs : \E text \in ReviewDocs(p), mtime \in WriteTimes :
           write_srr(p, text, mtime)
    \/ \E p \in Procs : index_check(p)
    \/ \E p \in Procs : index_get_old(p)
    \/ \E p \in Procs : index_delete(p)
    \/ \E p \in Procs : index_add(p)
    \/ \E p \in Procs : complete_review(p)
    \/ \E p \in Procs : tier2_search(p)

SpecProjects == InitProjects /\ [][NextProjects]_vars

(***************************************************************************)
(* Routing  (agents/orchestrator/router.py), and the life of one project   *)
(***************************************************************************)
\* context[key] = value, for a key the dict may not have yet
SetKey(ctx, key, value) == (key :> value) @@ ctx

\* classify_project stores the classifier's output as structured_spec;
\* route_project reads its handoff_direction
WithStructuredSpec(ctx, handoff_direction) ==
    SetKey(ctx, "structured_spec", [handoff_direction |-> handoff_direction])

\* a DEV or DS branch that sets the keys and logs nothing
Routed_without_event(ctx, crew, lead, next_action, status, detail) ==
    [SetKey(ctx, "crew_lead", lead)
        EXCEPT !.assigned_crew = crew,
               !.next_action = next_action,
               !.status = status]

Routed(ctx, crew, lead, next_action, status, detail) ==
    log_event([SetKey(ctx, "crew_lead", lead)
                  EXCEPT !.assigned_crew = crew,
                         !.next_action = next_action,
                         !.status = status],
              "ROUTED", detail)

\* the JOINT branch: crew and lead are set, the phases follow the direction
RoutedJoint(ctx, direction) ==
    LET joint == [SetKey(SetKey(ctx, "crew_lead", "Master Orchestrator"),
                         "handoff_direction", direction)
                     EXCEPT !.assigned_crew = "JOINT"]
    IN  IF direction = "DS_TO_DEV"
        THEN log_event(
                 [SetKey(SetKey(joint, "phase_1_crew", "DS"), "phase_2_crew", "DEV")
                     EXCEPT !.next_action = "DS_CREW: Data analysis phase (Phase 1 of 2)",
                            !.status = "ROUTED_TO_DS_PHASE1"],
                 "ROUTED", "Joint project: DS Crew first -> Dev Crew second")
        ELSE IF direction = "DEV_TO_DS"
        THEN log_event(
                 [SetKey(SetKey(joint, "phase_1_crew", "DEV"), "phase_2_crew", "DS")
                     EXCEPT !.next_action = "DEV_CREW: Build phase (Phase 1 of 2)",
                            !.status = "ROUTED_TO_DEV_PHASE1"],
                 "ROUTED", "Joint project: Dev Crew first -> DS Crew second")
        ELSE IF direction = "BIDIRECTIONAL"
        THEN log_event(
                 [joint EXCEPT
                     !.next_action = "MASTER_ORCHESTRATOR: Manual coordination required",
                     !.status = "ROUTED_BIDIRECTIONAL"],
                 "ROUTED", "Bidirectional joint project: manual coordination")
        ELSE joint

\* route_project(context), up to its save
route_project(ctx) ==
    IF ctx.classification = "DEV"
    THEN Routed(ctx, "DEV", "Product Manager",
                "DEV_CREW: Requirements and planning phase", "ROUTED_TO_DEV",
                "Assigned to Dev Crew -> Product Manager")
    ELSE IF ctx.classification = "DS"
    THEN Routed(ctx, "DS", "DS Project Lead",
                "DS_CREW: Data strategy and ingestion phase", "ROUTED_TO_DS",
                "Assigned to DS Crew -> DS Project Lead")
    ELSE IF ctx.classification = "JOINT"
    THEN RoutedJoint(ctx, ctx.structured_spec.handoff_direction)
    ELSE log_event(
             [ctx EXCEPT !.status = "ROUTING_FAILED",
                         !.next_action =
                             "HUMAN: Classification unclear, manual review needed"],
             "ROUTING_FAILED", "Unknown classification: " \o ctx.classification)

MaxRoutes == 1

RouteRuns(ctx) ==
    Cardinality({k \in 1..Len(ctx.audit_log) :
        ctx.audit_log[k].event \in {"ROUTED", "ROUTING_FAILED"}})

\* the router run on the project
route ==
    /\ pc = "idle"
    /\ context' = route_project(context)
    /\ saved' = save_context(context')
    /\ UNCHANGED <<fs, chroma_available, run, pc, lac, loaded, approval, outcome>>

\* what the classifier can answer: the crew, and the direction of a joint
\* project
Classifications ==
    {<<"DEV", "None">>, <<"DS", "None">>, <<"UNKNOWN", "None">>,
     <<"JOINT", "DS_TO_DEV">>, <<"JOINT", "DEV_TO_DS">>,
     <<"JOINT", "BIDIRECTIONAL">>, <<"JOINT", "None">>}

InitLifecycle ==
    /\ \E c \in Classifications :
           context = WithStructuredSpec(classify_project(c[1]), c[2])
    /\ saved = save_context(context)
    /\ fs = <<>>
    /\ chroma_available = FALSE
    /\ pc = "idle"
    /\ lac = NoFrame
    /\ loaded = NoFrame
    /\ approval = NoFrame
    /\ outcome = NoFrame
    /\ run = NoFrame

\* how many events one project's audit log grows to before the last
\* operation starts; the stages are the functions the entry points call
MaxEvents == 4

MayStart == Len(context.audit_log) < MaxEvents

NextLifecycle ==
    \/ /\ RouteRuns(context) < MaxRoutes
       /\ route
    \/ /\ MayStart
       /\ run_requirements_phase(StageDoc)
    \/ /\ MayStart
       /\ run_architecture_design(StageDoc)
    \/ /\ MayStart
       /\ run_backend_implementation(StageDoc)
    \/ /\ MayStart
       /\ request_human_approval("PRD")
    \/ /\ MayStart
       /\ HandoffRuns(context) < MaxHandoffRuns
       /\ \E package \in HandoffPackages : execute_handoff(package)
    \/ \E raw \in {W_APPROVE, W_REJECT} : human_response(raw)
    \/ \E raw \in {W_APPROVE, W_REJECT} : handoff_response(raw)
    \/ \E raw \in ReasonLines : handoff_reason(raw)

SpecLifecycle == InitLifecycle /\ [][NextLifecycle]_vars

(***************************************************************************)
(* parse_sections and extract_sections on documents of nested headings     *)
(***************************************************************************)
MaxHeadings == 5

MaxLevel == 3

DigitChars == <<"1", "2", "3", "4", "5", "6", "7", "8", "9">>

\* the title of the i-th heading of a document and the line under it
HeadingTitle(i) == <<"h", DigitChars[i]>>

BodyLine(i) == <<"b", DigitChars[i]>>

\* a markdown document whose i-th heading has levels[i] "#" marks
RECURSIVE NestedDoc(_, _)
NestedDoc(levels, i) ==
    IF i > Len(levels) THEN <<>>
    ELSE (IF i = 1 THEN <<>> ELSE <<NL>>)
         \o Fill("#", levels[i]) \o <<" ">> \o HeadingTitle(i)
         \o <<NL>> \o BodyLine(i)
         \o NestedDoc(levels, i + 1)

LevelLists == UNION {[1..n -> 1..MaxLevel] : n \in 1..MaxHeadings}

\* a process that imported smart_extract and holds one document
InitSections ==
    /\ \E levels \in LevelLists :
           run = [op |-> "document", levels |-> levels,
                  text |-> NestedDoc(levels, 1)]
    /\ context = classify_project("DEV")
    /\ saved = save_context(context)
    /\ fs = <<>>
    /\ chroma_available = FALSE
    /\ pc = "idle"
    /\ lac = NoFrame
    /\ loaded = NoFrame
    /\ approval = NoFrame
    /\ outcome = NoFrame

\* sections = parse_sections(text)
call_parse_sections ==
    /\ outcome = NoFrame
    /\ outcome' = [op |-> "parse_sections",
                   sections |-> parse_sections(run.text)]
    /\ UNCHANGED <<context, saved, fs, chroma_available, pc, lac, loaded,
                   approval, run>>

\* extract_sections(text, [wanted]) without a budget
call_extract_sections(i) ==
    /\ outcome = NoFrame
    /\ outcome' = [op |-> "extract_sections",
                   wanted |-> i,
                   text |-> extract_sections(run.text, <<HeadingTitle(i)>>, 0)]
    /\ UNCHANGED <<context, saved, fs, chroma_available, pc, lac, loaded,
                   approval, run>>

NextSections ==
    \/ call_parse_sections
    \/ \E i \in 1..Len(run.levels) : call_extract_sections(i)

SpecSections == InitSections /\ [][NextSections]_vars

(***************************************************************************)
(* Properties of the context loader                                        *)
(***************************************************************************)
\* hay.endswith(p)
EndsWith(hay, p) ==
    Len(p) <= Len(hay) /\ SubSeq(hay, Len(hay) - Len(p) + 1, Len(hay)) = p

\* the records of type exactly T that carry a path
ExactHits(artifacts, T) ==
    {i \in 1..Len(artifacts) : artifacts[i].type = T /\ artifacts[i].path # ""}

\* the records whose type is T or starts with T (a revision of T)
PrefixHits(artifacts, T) ==
    {i \in 1..Len(artifacts) :
        StartsWith(artifacts[i].type, T) /\ artifacts[i].path # ""}

\* the latest record of type exactly T exists and its file is there
Resolvable(frame, T) ==
    /\ ExactHits(frame.artifacts, T) # {}
    /\ frame.artifacts[SetMax(ExactHits(frame.artifacts, T))].path \in frame.files

Calls == IF loaded.op = "returned" THEN loaded.calls ELSE <<>>

HasSchema(full_text) ==
    \E d \in ExtractDocs : d.text = full_text /\ d.schema # <<>>

\* the content of the "Database Schema" section as the document was written
SchemaOf(full_text) ==
    (CHOOSE d \in ExtractDocs : d.text = full_text).schema

\* a get_context call on a BIR with the section, for a consumer whose map
\* entry wants it
WantsSchema(c) ==
    /\ c.atype = T_BIR
    /\ \E j \in 1..Len(c.wanted) : c.wanted[j] = W_DatabaseSchema
    /\ HasSchema(c.full_text)

\* the chunks of the wanted sections from the i-th up to the one wanted
RECURSIVE ChunksUpTo(_, _, _, _)
ChunksUpTo(sections, wanted, last, i) ==
    IF i > Len(wanted) THEN <<>>
    ELSE (IF find_section(sections, wanted[i]).found
             /\ find_section(sections, wanted[i]).val # <<>>
          THEN <<SectionHeader(wanted[i]) \o find_section(sections, wanted[i]).val>>
          ELSE <<>>)
         \o (IF wanted[i] = last THEN <<>>
             ELSE ChunksUpTo(sections, wanted, last, i + 1))

\* the wanted sections up to "database schema", with their header lines
\* and joined by newlines, are within the budget
SchemaFitsBudget(c) ==
    Len(Join(ChunksUpTo(parse_sections(c.full_text), c.wanted,
                        W_DatabaseSchema, 1), <<NL>>)) <= loaded.max_chars

IsWord(raw, word) == Lower(Strip(raw)) = Lower(word)

\* C6: request_human_approval returns only on a line that says APPROVE or
\* REJECT (surrounding white space and case aside); any other line leaves
\* it waiting with nothing logged; it returns True only for APPROVE.
C6_ReturnsOnlyOnDecision ==
    /\ (pc = "awaiting_input" /\ approval.prompts > 0) =>
           /\ ~IsWord(approval.last_input, W_APPROVE)
           /\ ~IsWord(approval.last_input, W_REJECT)
           /\ Len(context.audit_log) = approval.at + 1
           /\ outcome = NoFrame
    /\ outcome.op = "request_human_approval" =>
           /\ IsWord(outcome.input, W_APPROVE) \/ IsWord(outcome.input, W_REJECT)
           /\ outcome.value <=> IsWord(outcome.input, W_APPROVE)

\* C6 case: the call refused a line, went on waiting and then returned
\* True on an approval
C6_ApprovedAfterRefusedLine ==
    /\ outcome.op = "request_human_approval"
    /\ outcome.prompts > 0
    /\ outcome.value

\* C7: when request_human_approval returns, the audit log ends with the
\* request event of the checkpoint followed directly by the one decision
\* event that matches the returned value, both already saved; and in
\* every audit log a decision event directly follows the request event of
\* its checkpoint, so that no request is decided twice.
C7_RequestThenOneDecision ==
    /\ outcome.op = "request_human_approval" =>
           /\ Len(outcome.audit_log) = outcome.at + 2
           /\ outcome.audit_log[outcome.at + 1].event
                  = "CHECKPOINT: " \o outcome.checkpoint_name
           /\ outcome.audit_log[outcome.at + 2].event
                  = (IF outcome.value THEN "APPROVED: " ELSE "REJECTED: ")
                        \o outcome.checkpoint_name
           /\ outcome.persisted = outcome.audit_log
    /\ \A k \in 1..Len(context.audit_log) :
           \A n \in CheckpointNames :
               context.audit_log[k].event \in {"APPROVED: " \o n, "REJECTED: " \o n}
                   => /\ k > 1
                      /\ context.audit_log[k - 1].event = "CHECKPOINT: " \o n

\* C7 case: a checkpoint is rejected after an earlier one was decided
C7_SecondCheckpointRejected ==
    /\ outcome.op = "request_human_approval"
    /\ ~outcome.value
    /\ \E k \in 1..outcome.at :
           \E n \in CheckpointNames :
               outcome.audit_log[k].event \in {"APPROVED: " \o n, "REJECTED: " \o n}

\* C8 as stated: the completion event of a stage the pipeline marks as
\* checkpointed is in the audit log only behind a decision event
C8_CompletionOnlyAfterDecision ==
    \A k \in 1..Len(context.audit_log) :
        context.audit_log[k].event \in CheckpointedCompletions =>
            \E j \in 1..(k - 1) :
                \E n \in CheckpointNames :
                    context.audit_log[j].event
                        \in {"APPROVED: " \o n, "REJECTED: " \o n}

(***************************************************************************)
(* Properties of the handoff protocol                                      *)
(***************************************************************************)
\* the references of a package that lead to no existing file
Unresolved(package, files) ==
    {i \in 1..Len(package.artifacts) :
        \/ package.artifacts[i].path = ""
        \/ package.artifacts[i].path \notin DOMAIN files}

\* the validation result v reports one issue per unresolved reference,
\* one for empty criteria and one for a short summary
ReportsEveryIssue(v) ==
    /\ Len(v.issues)
         = Cardinality(Unresolved(v.package, v.files_before))
           + (IF v.package.acceptance_criteria = <<>> THEN 1 ELSE 0)
           + (IF Len(v.package.summary) < SummaryMin THEN 1 ELSE 0)
    /\ v.is_valid <=> v.issues = <<>>

\* C9 as stated: validate_handoff reports one issue for every referenced
\* artifact that does not resolve to existing content, one for empty
\* acceptance criteria and one for a summary under the minimum, and
\* returns ok exactly when there is no issue
C9_EveryIssueReported ==
    /\ outcome.op = "execute_handoff" => ReportsEveryIssue(outcome)
    /\ approval.op = "execute_handoff" => ReportsEveryIssue(approval)

\* C10, as amended: execute_handoff on an invalid package appends one
\* HANDOFF_VALIDATION_FAILED event that lists the issues and saves the
\* project context; it changes nothing else: no file is written, no approval
\* is requested, status, handoffs and every other field stay as they were.
C10_InvalidPackageOnlyLogged ==
    (outcome.op = "execute_handoff" /\ ~outcome.is_valid) =>
        /\ outcome.context_after =
               [outcome.context_before EXCEPT !.audit_log =
                   Append(@, [event |-> "HANDOFF_VALIDATION_FAILED",
                              detail |-> join_issues(outcome.issues, 1)])]
        /\ outcome.saved_after = [exists |-> TRUE, data |-> outcome.context_after]
        /\ outcome.files_after = outcome.files_before
        /\ pc = "idle" /\ approval = NoFrame

\* C10 case: a package with several issues was refused
C10_InvalidPackageRefused ==
    /\ outcome.op = "execute_handoff"
    /\ ~outcome.is_valid
    /\ Len(outcome.issues) >= 2
    /\ outcome.context_before.artifacts # <<>>

\* C10 as stated: execute_handoff on an invalid package leaves the project
\* context, what is persisted and the stored files exactly as they were
C10_InvalidPackageNoSideEffects ==
    (outcome.op = "execute_handoff" /\ ~outcome.is_valid) =>
        /\ outcome.context_after = outcome.context_before
        /\ outcome.saved_after = outcome.saved_before
        /\ outcome.files_after = outcome.files_before

(***************************************************************************)
(* Properties of approved handoffs                                         *)
(***************************************************************************)
\* every reference of the package names a file that exists in files
AllReferencedExist(package, files) ==
    \A i \in 1..Len(package.artifacts) : package.artifacts[i].path \in files

\* C11 as stated: a handoff that execute_handoff marked APPROVED belongs to
\* a package all of whose referenced artifacts existed on storage when the
\* call started, and whose acceptance criteria are non-empty
C11_ApprovedOnlyIfArtifactsExist ==
    (outcome.op = "execute_handoff" /\ outcome.is_valid /\ outcome.approved) =>
        /\ outcome.package.status = "APPROVED"
        /\ AllReferencedExist(outcome.package, DOMAIN outcome.files_before)
        /\ outcome.package.acceptance_criteria # <<>>

\* the record execute_handoff appends for the package of an outcome
ApprovedRecord(o) ==
    [handoff_id |-> o.package.handoff_id, status |-> "APPROVED",
     path |-> handoff_path(o.package)]

RejectedRecord(o) ==
    [handoff_id |-> o.package.handoff_id, status |-> "REJECTED",
     reason |-> Strip(o.input)]

\* C12: execute_handoff on a valid package from crew D to crew R ends in one
\* of two outcomes: approved, with status ACTIVE_<R>_PHASE2 and one APPROVED
\* record appended to handoffs; or rejected, with status RETURNED_TO_<D> and
\* one REJECTED record carrying the typed reason appended. So a rejected
\* handoff followed by an approved one leaves ACTIVE_<R>_PHASE2 with the
\* REJECTED record before the APPROVED record.
C12_ApprovedOrReturned ==
    (outcome.op = "execute_handoff" /\ outcome.is_valid) =>
        IF outcome.approved
        THEN /\ context.status
                  = "ACTIVE_" \o outcome.package.receiving_crew \o "_PHASE2"
             /\ context.handoffs = Append(outcome.context_before.handoffs,
                                          ApprovedRecord(outcome))
        ELSE /\ context.status
                  = "RETURNED_TO_" \o outcome.package.delivering_crew
             /\ context.handoffs = Append(outcome.context_before.handoffs,
                                          RejectedRecord(outcome))

\* C12 case: H1 was rejected with a reason, H2 with the updated criteria
\* was approved
C12_RejectedThenApproved ==
    /\ outcome.op = "execute_handoff"
    /\ outcome.is_valid
    /\ outcome.approved
    /\ outcome.package.acceptance_criteria = UpdatedCriteria
    /\ outcome.context_before.status = "RETURNED_TO_DS"
    /\ context.status = "ACTIVE_DEV_PHASE2"
    /\ Len(context.handoffs) = 2
    /\ context.handoffs[1].status = "REJECTED"
    /\ context.handoffs[1].reason = <<"n", "o", " ", "c", "r", "i", "t", "e", "r", "i", "a">>
    /\ context.handoffs[2].status = "APPROVED"

\* the positions in handoffs of the APPROVED records of one handoff id
ApprovedRecords(ctx, handoff_id) ==
    {k \in 1..Len(ctx.handoffs) :
        /\ ctx.handoffs[k].handoff_id = handoff_id
        /\ ctx.handoffs[k].status = "APPROVED"}

\* C13 as stated: handoffs holds at most one APPROVED record per handoff id,
\* and execute_handoff for a handoff that is already approved does not ask
\* for approval again
C13_ApprovedAtMostOnce ==
    /\ \A k \in 1..Len(context.handoffs) :
           Cardinality(ApprovedRecords(context, context.handoffs[k].handoff_id)) <= 1
    /\ approval.op = "execute_handoff" =>
           ApprovedRecords(context, approval.package.handoff_id) = {}

(***************************************************************************)
(* Properties of persistence                                               *)
(***************************************************************************)
\* the process is blocked on input() from the human
WaitingOnHuman ==
    pc \in {"awaiting_input", "handoff_awaiting_input", "handoff_awaiting_reason"}

\* C14 as stated: while an operation prompts the human and waits, the
\* persisted project context holds every event and change of the one in
\* memory
C14_PersistedBeforePrompt ==
    WaitingOnHuman => (saved.exists /\ saved.data = context)

\* C15 as stated: when a stage ended without returning (killed, or a call
\* raised) the context file is still loadable and holds the context the
\* stage started from, status included, with no part of the stage's change
C15_FailedStageLeavesPriorContext ==
    (outcome.op \in StageOps /\ ~outcome.returned) =>
        /\ Loadable(saved)
        /\ ContextOf(read_context(saved)) = outcome.context_before

\* C19: after save_context has written the context file, loading it gives
\* the audit_log entries and the artifacts list of the context that was
\* saved, each in the same order and with no entry lost.
C19_FileReproducesLists ==
    (outcome.op \in StageOps /\ outcome.returned /\ outcome.importable) =>
        /\ Loadable(saved)
        /\ ContextOf(read_context(saved)).audit_log = outcome.context.audit_log
        /\ ContextOf(read_context(saved)).artifacts = outcome.context.artifacts

\* C19 case: a saved context with two artifacts and an audit log that holds
\* a typed reason with a quote and a non-ASCII character
C19_SavedTwoArtifacts ==
    /\ outcome.op \in StageOps
    /\ outcome.returned
    /\ outcome.importable
    /\ Len(outcome.context.artifacts) = 2
    /\ outcome.context.artifacts[1].type # outcome.context.artifacts[2].type
    /\ Len(outcome.context.audit_log) >= 5
    /\ \E k \in 1..Len(outcome.context.audit_log) :
           /\ IsRejectionEvent(outcome.context.audit_log[k].event)
           /\ outcome.context.audit_log[k].detail = RejectedPackage.rejected_reason

\* C20 as stated: a stage returns as completed only if the context it
\* returns is what the context file durably holds
C20_ReturnedOnlyIfPersisted ==
    (outcome.op \in StageOps /\ outcome.returned) =>
        /\ Loadable(saved)
        /\ ContextOf(read_context(saved)) = outcome.context

(***************************************************************************)
(* Properties of the project context over its life                         *)
(***************************************************************************)
CompletionEvents == {"PRD_COMPLETE", "ARCHITECTURE_COMPLETE", "BACKEND_COMPLETE"}

\* C16 as stated: the project context never holds two artifact records of
\* the same type and path, nor two completion events of the same stage
C16_NoDuplicateRecord ==
    /\ \A i, j \in 1..Len(context.artifacts) :
           (i < j) => ~(/\ context.artifacts[i].type = context.artifacts[j].type
                        /\ context.artifacts[i].path = context.artifacts[j].path)
    /\ \A i, j \in 1..Len(context.audit_log) :
           (i < j /\ context.audit_log[i].event \in CompletionEvents)
               => context.audit_log[i].event # context.audit_log[j].event

\* the position in the pipeline a status stands for; 0 for the statuses a
\* handoff sets, which start a new phase
PipelinePosition(status) ==
    IF status \in {"INITIATED"} THEN 1
    ELSE IF status = "CLASSIFIED" THEN 2
    ELSE IF status \in {"ROUTED_TO_DEV", "ROUTED_TO_DS", "ROUTED_TO_DS_PHASE1",
                        "ROUTED_TO_DEV_PHASE1", "ROUTED_BIDIRECTIONAL",
                        "ROUTING_FAILED"} THEN 3
    ELSE IF status = "PRD_COMPLETE" THEN 4
    ELSE IF status = "ARCHITECTURE_COMPLETE" THEN 5
    ELSE IF status = "BACKEND_COMPLETE" THEN 6
    ELSE 0

IsReturned(status) == status \in {"RETURNED_TO_DS", "RETURNED_TO_DEV"}

\* C17 as stated: no operation moves status back to the label of an earlier
\* pipeline position, unless it is a rejected handoff setting RETURNED_TO_<crew>
C17_StatusNeverRegresses ==
    [][ \/ IsReturned(context'.status)
        \/ PipelinePosition(context'.status) = 0
        \/ PipelinePosition(context'.status) >= PipelinePosition(context.status)
      ]_vars

IsPrefix(s, t) == Len(s) <= Len(t) /\ SubSeq(t, 1, Len(s)) = s

Collections == {"artifacts", "checkpoints", "handoffs", "audit_log"}

\* the keys route_project and execute_handoff set besides status
RoutingKeys ==
    {"assigned_crew", "crew_lead", "next_action", "handoff_direction",
     "phase_1_crew", "phase_2_crew"}

\* every collection only grows at its end, and every other key outside
\* free keeps its value (a key that is new must be in free)
ChangesOnly(free) ==
    /\ \A c \in Collections : IsPrefix(context[c], context'[c])
    /\ DOMAIN context \subseteq DOMAIN context'
    /\ \A key \in DOMAIN context' \ (Collections \cup free) :
           key \in DOMAIN context /\ context'[key] = context[key]

\* C18, as amended: every operation changes the project context only by
\* appending to artifacts, checkpoints, handoffs or audit_log, by updating
\* status, or by setting the routing keys (assigned_crew, crew_lead,
\* next_action, handoff_direction, phase_1_crew, phase_2_crew); entries
\* already in the four sequences are never modified, reordered or removed.
C18_AppendsAndRoutingKeysOnly ==
    [][ChangesOnly({"status"} \cup RoutingKeys)]_vars

\* C18 case: a routed project with an artifact and a decided handoff
C18_RoutedStagedHandedOff ==
    /\ context.assigned_crew = "DEV"
    /\ "crew_lead" \in DOMAIN context
    /\ Len(context.artifacts) >= 1
    /\ Len(context.handoffs) >= 1
    /\ Len(context.audit_log) >= 5

\* C18 as stated: besides the four sequences only status changes
C18_AppendsAndStatusOnly ==
    [][ChangesOnly({"status"})]_vars
(***************************************************************************)
(* Properties of section spans and of the character budget                 *)
(***************************************************************************)
\* the heading that closes heading i: the next one at the same or a higher
\* level, or one past the last heading
ClosingHeading(levels, i) ==
    IF \E j \in (i + 1)..Len(levels) : levels[j] <= levels[i]
    THEN SetMin({j \in (i + 1)..Len(levels) : levels[j] <= levels[i]})
    ELSE Len(levels) + 1

\* text holds the content of heading i: its own line, and the heading and
\* the line of every heading up to the closing one, and of no other
HoldsSpanOf(text, levels, i) ==
    \A j \in 1..Len(levels) :
        /\ Contains(text, BodyLine(j))
               <=> (i <= j /\ j < ClosingHeading(levels, i))
        /\ Contains(text, HeadingTitle(j))
               <=> (i < j /\ j < ClosingHeading(levels, i))

\* C23: in parse_sections the span of a heading runs from just after its
\* heading line to the next heading whose level is less than or equal to
\* its own: the section holds its own text and all its descendants, and
\* nothing of the heading that closes it or of any later one; for levels
\* [1,2,2,3,1] the first level-1 section holds the level-2 and level-3
\* descendants and none of the second level-1 heading's content.
C23_SpanEndsAtNextSameOrHigherLevel ==
    /\ outcome.op = "parse_sections" =>
           \A i \in 1..Len(run.levels) :
               /\ DictHas(outcome.sections, HeadingTitle(i))
               /\ HoldsSpanOf(DictGet(outcome.sections, HeadingTitle(i)),
                              run.levels, i)
    /\ outcome.op = "extract_sections" =>
           HoldsSpanOf(SubSeq(outcome.text,
                              Len(SectionHeader(HeadingTitle(outcome.wanted))) + 1,
                              Len(outcome.text)),
                       run.levels, outcome.wanted)

\* the document with headings at levels [1,2,2,3,1] is parsed and its first
\* section holds the lines of headings 1 to 4 and not the line of heading 5
C23_NestedDocumentParsed ==
    /\ run.levels = <<1, 2, 2, 3, 1>>
    /\ outcome.op = "parse_sections"
    /\ \A j \in 1..4 : Contains(DictGet(outcome.sections, HeadingTitle(1)),
                                BodyLine(j))
    /\ ~Contains(DictGet(outcome.sections, HeadingTitle(1)), BodyLine(5))

\* the get_context calls of the last load in which extract_sections ran
ExtractCalls == {n \in 1..Len(Calls) : Calls[n].wanted # <<>>}

\* C24: for any document, any list of wanted sections and any budget
\* max_chars > 0, the text extract_sections returns, separators and
\* truncation notice included, is never longer than max_chars.
C24_ExtractionWithinBudget ==
    \A n \in ExtractCalls : Len(Calls[n].extracted) <= loaded.max_chars

\* the chunks of all the wanted sections that resolve, header lines included
ResolvedChunks(c) ==
    ChunksUpTo(parse_sections(c.full_text), c.wanted, c.wanted[Len(c.wanted)], 1)

\* the resolved sections together do not fit the budget: the budget runs
\* out in the middle of one of them
BudgetExhausted(c) == Len(Join(ResolvedChunks(c), <<>>)) > loaded.max_chars

\* C25: whenever the budget is exhausted in the middle of a resolved
\* section, the text extract_sections returns carries the truncation notice,
\* and so does the text get_context returns from tier 1: it ends with the
\* notice.
C25_TruncationAlwaysMarked ==
    \A n \in ExtractCalls :
        BudgetExhausted(Calls[n]) =>
            /\ Contains(Calls[n].extracted, TruncatedNotice)
            /\ Calls[n].tier = 1 => EndsWith(Calls[n].ret, TruncatedNotice)

(***************************************************************************)
(* Properties of routing                                                   *)
(***************************************************************************)
\* the crew a handoff direction starts with and the crew it ends with
FirstCrew(direction) == IF direction = "DS_TO_DEV" THEN "DS" ELSE "DEV"

SecondCrew(direction) == IF direction = "DS_TO_DEV" THEN "DEV" ELSE "DS"

LastEvent(ctx) == ctx.audit_log[Len(ctx.audit_log)]

\* after is where route_project leaves a project classified as before is
RoutedAlongTrack(before, after) ==
    LET direction == before.structured_spec.handoff_direction
    IN  /\ before.classification \in {"DEV", "DS"} =>
               /\ after.status = "ROUTED_TO_" \o before.classification
               /\ after.assigned_crew = before.classification
               /\ LastEvent(after).event = "ROUTED"
        /\ (before.classification = "JOINT"
              /\ direction \in {"DS_TO_DEV", "DEV_TO_DS"}) =>
               /\ after.status = "ROUTED_TO_" \o FirstCrew(direction) \o "_PHASE1"
               /\ after.assigned_crew = "JOINT"
               /\ after.phase_1_crew = FirstCrew(direction)
               /\ after.phase_2_crew = SecondCrew(direction)
               /\ LastEvent(after).event = "ROUTED"
        /\ (before.classification = "JOINT" /\ direction = "BIDIRECTIONAL") =>
               /\ after.status = "ROUTED_BIDIRECTIONAL"
               /\ after.next_action =
                      "MASTER_ORCHESTRATOR: Manual coordination required"
               /\ "phase_1_crew" \notin DOMAIN after
               /\ "phase_2_crew" \notin DOMAIN after
               /\ LastEvent(after).event = "ROUTED"
        /\ before.classification \notin {"DEV", "DS", "JOINT"} =>
               /\ after.status = "ROUTING_FAILED"
               /\ LastEvent(after).event = "ROUTING_FAILED"

\* C26: route_project moves a classified project along the track of its
\* classification: DEV to ROUTED_TO_DEV, DS to ROUTED_TO_DS, a JOINT project
\* with a direction to ROUTED_TO_<phase1>_PHASE1 with phase_1_crew and
\* phase_2_crew set from the direction, a BIDIRECTIONAL one to the
\* manual-coordination state, which names no crew for either phase, and an
\* unknown classification to ROUTING_FAILED; the routed context is saved.
C26_RoutedAlongTrack ==
    [][(route /\ context.status = "CLASSIFIED") =>
           /\ RoutedAlongTrack(context, context')
           /\ saved' = save_context(context')]_vars

\* a joint DS-to-DEV project was routed to the DS crew's phase 1
C26_JointRoutedToPhase1 ==
    /\ context.classification = "JOINT"
    /\ context.structured_spec.handoff_direction = "DS_TO_DEV"
    /\ context.status = "ROUTED_TO_DS_PHASE1"
    /\ "phase_1_crew" \in DOMAIN context
    /\ LastEvent(context).event = "ROUTED"

RoutingLabels ==
    {"ROUTED_TO_DEV", "ROUTED_TO_DS", "ROUTED_TO_DS_PHASE1",
     "ROUTED_TO_DEV_PHASE1", "ROUTED_BIDIRECTIONAL", "ROUTING_FAILED"}

\* C29: for every classified context, whatever its classification and
\* handoff_direction, route_project appends exactly one routing event
\* (ROUTED or ROUTING_FAILED) to the audit log and leaves status at a
\* ROUTED_* label or ROUTING_FAILED, never at its previous value.
C29_AlwaysOneRoutingEvent ==
    [][(route /\ context.status = "CLASSIFIED") =>
           /\ Len(context'.audit_log) = Len(context.audit_log) + 1
           /\ LastEvent(context').event \in {"ROUTED", "ROUTING_FAILED"}
           /\ context'.status \in RoutingLabels]_vars

(***************************************************************************)
(* Properties of the handoff package file and of the persisted context     *)
(***************************************************************************)
\* C27: after execute_handoff completes for a valid package, the persisted
\* handoff package file carries the final decision: its status is APPROVED
\* or REJECTED (with the reason), never still PENDING_APPROVAL, and it
\* agrees with the record appended to context.handoffs.
C27_PackageFileCarriesDecision ==
    (outcome.op = "execute_handoff" /\ outcome.is_valid) =>
        LET file == fs[handoff_path(outcome.package)]
            record == context.handoffs[Len(context.handoffs)]
        IN  /\ file.status # "PENDING_APPROVAL"
            /\ file.status = record.status
            /\ record.status = "REJECTED" => file.rejected_reason = record.reason

(***************************************************************************)
(* Properties of the order of a stage's statements                         *)
(***************************************************************************)
HasRecord(ctx, stage) ==
    \E k \in 1..Len(ctx.artifacts) :
        ctx.artifacts[k].type = stage.type /\ ctx.artifacts[k].path = stage.path

HasCompletionEvent(ctx, stage) ==
    \E k \in 1..Len(ctx.audit_log) : ctx.audit_log[k].event = stage.label

\* the stage that is running, when it runs on a project it has not
\* completed before
FirstRun ==
    /\ run.op \in StageOps
    /\ StageOf(run.op).sets_status
    /\ run.context_before.status # StageOf(run.op).label

\* the persisted context, when the file holds one
Persisted == ContextOf(read_context(saved))

\* C22: a stage advances status to its completion label only after it has
\* appended its artifact record and logged its completion event: in no
\* state of the stage's execution, in memory or persisted, does status
\* carry the label while the record or the event is missing.
C22_StatusAfterRecordAndEvent ==
    /\ (FirstRun /\ context.status = StageOf(run.op).label) =>
           /\ HasRecord(context, StageOf(run.op))
           /\ HasCompletionEvent(context, StageOf(run.op))
    /\ \A op \in StageOps :
           (Loadable(saved) /\ Persisted.status = StageOf(op).label) =>
               /\ HasRecord(Persisted, StageOf(op))
               /\ HasCompletionEvent(Persisted, StageOf(op))

\* the decision events of one handoff in a context, and its records
DecisionEvents(ctx, id, word) ==
    {k \in 1..Len(ctx.audit_log) :
        ctx.audit_log[k].event = "HANDOFF " \o word \o ": " \o id}

DecisionRecords(ctx, id, word) ==
    {k \in 1..Len(ctx.handoffs) :
        ctx.handoffs[k].handoff_id = id /\ ctx.handoffs[k].status = word}

HandoffId(d, r) == "HO-" \o ProjectId \o "-" \o d \o "2" \o r

\* C28: in every persisted project context a handoff decision event
\* (HANDOFF APPROVED or HANDOFF REJECTED for a handoff_id) is accompanied by
\* the matching record in handoffs and the matching status
\* (ACTIVE_<receiving>_PHASE2 or RETURNED_TO_<delivering>), also when the
\* process dies at any point of execute_handoff.
C28_DecisionEventHasRecordAndStatus ==
    \A d, r \in {"DS", "DEV"} :
        /\ Cardinality(DecisionEvents(saved.data, HandoffId(d, r), "APPROVED"))
             = Cardinality(DecisionRecords(saved.data, HandoffId(d, r), "APPROVED"))
        /\ Cardinality(DecisionEvents(saved.data, HandoffId(d, r), "REJECTED"))
             = Cardinality(DecisionRecords(saved.data, HandoffId(d, r), "REJECTED"))
        /\ (LastEvent(saved.data).event = "HANDOFF APPROVED: " \o HandoffId(d, r))
               => saved.data.status = "ACTIVE_" \o r \o "_PHASE2"
        /\ (LastEvent(saved.data).event = "HANDOFF REJECTED: " \o HandoffId(d, r))
               => saved.data.status = "RETURNED_TO_" \o d

\* C30: execute_handoff changes status to ACTIVE_<receiving>_PHASE2 or
\* RETURNED_TO_<delivering> only for a JOINT project whose phase-1 crew is
\* the package's delivering crew and whose phase-2 crew is the receiving
\* crew, and only while phase 1 is the active phase; from any other state
\* the handoff makes no status transition.
C30_HandoffOnlyFromPhase1 ==
    (/\ outcome.op = "execute_handoff"
     /\ outcome.is_valid
     /\ outcome.context_after.status
            \in {"ACTIVE_" \o outcome.package.receiving_crew \o "_PHASE2",
                 "RETURNED_TO_" \o outcome.package.delivering_crew}) =>
        LET before == outcome.context_before
        IN  /\ before.classification = "JOINT"
            /\ "phase_1_crew" \in DOMAIN before
            /\ before.phase_1_crew = outcome.package.delivering_crew
            /\ before.phase_2_crew = outcome.package.receiving_crew
            /\ before.status
                   # "ACTIVE_" \o outcome.package.receiving_crew \o "_PHASE2"

(***************************************************************************)
(* Properties of two projects side by side                                 *)
(***************************************************************************)
FileOrNone(files, path) == IF path \in DOMAIN files THEN files[path] ELSE NoFrame

\* everything on disk that belongs to one project: its context file, its
\* report, and its chunks in the index
ProjectView(files, project_id) ==
    [log |-> FileOrNone(files, "logs/" \o project_id \o ".json"),
     srr |-> FileOrNone(files, "dev/security/" \o project_id \o "_SRR.md"),
     chunks |-> [id \in {i \in DOMAIN Collection(files) :
                            Collection(files)[i].metadata.project_id = project_id}
                    |-> Collection(files)[id]]]

\* the chunks a project's reports can be cut into
ChunksOf(p) == UNION {{chunk_text(text)[i] : i \in 1..Len(chunk_text(text))} :
                         text \in ReviewDocs(p)}

\* what a process has read from the index belongs to its own project
ReadsOwnOnly(p) ==
    /\ run[p].op = "semantic_search" =>
           \A k \in 1..Len(run[p].results) :
               /\ run[p].results[k].metadata.project_id = ProjectIds[p]
               /\ run[p].results[k].document \in ChunksOf(p)
    /\ run[p].pc = "old_ids" =>
           \A id \in run[p].old_ids :
               /\ id \in DOMAIN Collection(fs)
               /\ Collection(fs)[id].metadata.project_id = ProjectIds[p]

\* C21: operations of one project never interfere with another project,
\* also when the two run concurrently as separate processes: saving a
\* context, indexing an artifact and tier-2 search for project P read, add,
\* delete and return only context files and index chunks scoped to P, and
\* a step in which the process of project Q does not move leaves every
\* entry of Q unchanged.
C21_ProjectsDoNotInterfere ==
    /\ [](\A p \in Procs : ReadsOwnOnly(p))
    /\ [][\A q \in Procs :
             run'[q] = run[q] =>
                 ProjectView(fs', ProjectIds[q]) = ProjectView(fs, ProjectIds[q])]_vars

\* both projects have chunks in the index, project 1 searched and got its
\* two chunks while project 2 is in the middle of re-indexing its report
C21_SearchWhileOtherReindexes ==
    /\ run[1].op = "semantic_search"
    /\ Len(run[1].results) = 2
    /\ run[2].pc = "old_ids"
    /\ run[2].old_ids # {}
    /\ DOMAIN ProjectView(fs, ProjectIds[1]).chunks # {}
    /\ DOMAIN ProjectView(fs, ProjectIds[2]).chunks # {}
=============================================================================
